---- MODULE Spec2Model ----
(***************************************************************************)
(* Model of the weekly production scheduling engine of                     *)
(* src/views/schedule.py: create_schedule_from_weekly and its helpers      *)
(* (Spec), the page from the picked weeks over build_weekly_data to the    *)
(* stored schedule (WeeklySpec), the creation handler run by two sessions *)
(* against the table "schedules" (FlowSpec), the same page started from    *)
(* the table "products" (CatalogSpec), and the page of the stored          *)
(* schedules with its edit mode (EditSpec).                                *)
(* Dates are proleptic Gregorian ordinals (date.toordinal()).              *)
(*                                                                         *)
(* Encoding of the source's strings (the model keeps ASCII):               *)
(*   shifts   "주간" -> "day", "야간" -> "night"                             *)
(*   timing   "주" -> "ju", "야" -> "ya", "주야" -> "juya"; any other text   *)
(*            (here "etc") is a value get_allowed_shifts does not know     *)
(*   reasons  "2일치 부족" -> "short2d", "안전재고 확보" -> "safety",         *)
(*            "다음주 2일치" -> "next2d", "다음주 안전재고" -> "nextsafety";   *)
(*            the suffix " (쿠:2일전)" -> "_ku"                              *)
(*   names    a product whose name starts with "(쿠)" is "kuC"             *)
(* Days are the indices 0..4 of DAYS = ["월","화","수","목","금"].           *)
(***************************************************************************)
EXTENDS Integers, Sequences, FiniteSets, TLC

VARIABLES
  weekly_df,        \* the input rows (weekly_df), a sequence of row records
  pc,               \* position in create_schedule_from_weekly
  i,                \* index of the row / plan the current loop is at
  day_idx,          \* day index of the planning loops
  stock,            \* running simulated stock of the planning loops
  sim,              \* locals of the last planning-loop iteration
  production_plan,  \* first-week plans, then extended by additional_plan
  additional_plan,  \* next-week plans
  temp_schedule, temp_daily_sum, temp_daily_time,
  final_stocks,
  schedule, daily_sum, daily_time,
  first_week_plan, next_week_plan,
  last              \* locals of the last placement-loop iteration

VARIABLES
  sales_table,      \* the rows of the table "sales"
  sales_date,       \* the date picked for the sales week
  schedule_date,    \* the date picked for the schedule week
  sales_monday,     \* get_week_monday(sales_date)
  sales_df,         \* the result of load_sales_for_week
  inventory_df,     \* the inventory rows, a sequence of records
  weekly_rows,      \* build_weekly_data: the rows built so far
  unmatched,        \* build_weekly_data: the unmatched names so far
  run,              \* which run of build_weekly_data this is
  first_out,        \* what the first run of build_weekly_data returned
  monday,           \* create_schedule_from_weekly: get_week_monday(start_date)
  date_labels,      \* create_schedule_from_weekly: the label of each day
  schedules         \* the rows of the table "schedules"

iovars == <<sales_table, sales_date, schedule_date, sales_monday, sales_df,
            inventory_df, weekly_rows, unmatched, run, first_out, monday,
            date_labels, schedules>>

VARIABLES
  confirm_delete,   \* st.session_state['confirm_delete'] of each session
  flow_pc,          \* position of each session in the creation flow
  owner,            \* the session whose call of create_schedule_from_weekly
                    \* the variables of the first block belong to, or 0
  runs,             \* how many times the button handler has been entered
  run_id,           \* the number of each session's latest handler run
  before,           \* the stored rows of the week when that run started
  pressed_for       \* the week for which each session last pressed
                    \* "삭제 후 새로 생성", 0 when it has not or has cancelled

flowvars == <<confirm_delete, flow_pc, owner, runs, run_id, before,
              pressed_for>>

VARIABLES
  products          \* the rows of the table "products" as the database returns them

catalogvars == <<products>>

VARIABLES
  selected_week,        \* the week chosen on the page of the stored schedules
  schedule_backup,      \* st.session_state['schedule_backup']
  schedule_edit_mode,   \* st.session_state['schedule_edit_mode']
  schedule_edit_week,   \* st.session_state['schedule_edit_week']
  edit_pc,              \* position of the session on that page
  next_id,              \* the id the table gives to the next inserted row
  entered,              \* the stored rows of the week when edit mode was entered
  edits                 \* what has been done on that page: the entries into
                        \* edit mode and the changes of rows, in their order

editvars == <<selected_week, schedule_backup, schedule_edit_mode,
              schedule_edit_week, edit_pc, next_id, entered, edits>>

schedvars == <<weekly_df, pc, i, day_idx, stock, sim, production_plan,
               additional_plan, temp_schedule, temp_daily_sum, temp_daily_time,
               final_stocks, schedule, daily_sum, daily_time, first_week_plan,
               next_week_plan, last>>

vars == <<weekly_df, pc, i, day_idx, stock, sim, production_plan,
          additional_plan, temp_schedule, temp_daily_sum, temp_daily_time,
          final_stocks, schedule, daily_sum, daily_time, first_week_plan,
          next_week_plan, last, iovars, flowvars, catalogvars, editvars>>

\* ---------------------------------------------------------------- constants

NumDays == 5

DAYS == 0 .. (NumDays - 1)

DAILY_LIMIT == 200

WORK_HOURS == 28800

BATCH_SIZE == 1

SHIFTS == <<"day", "night">>

ShiftSet == {"day", "night"}

\* ------------------------------------------------------------------ helpers

Max(a, b) == IF a >= b THEN a ELSE b

Min(a, b) == IF a <= b THEN a ELSE b

\* math.ceil(a / b) for b > 0
CeilDiv(a, b) == -((-a) \div b)

RECURSIVE SumSeq(_)
SumSeq(s) == IF Len(s) = 0 THEN 0 ELSE s[1] + SumSeq(SubSeq(s, 2, Len(s)))

RECURSIVE MaxSeq(_)
MaxSeq(s) == IF Len(s) = 1 THEN s[1] ELSE Max(Head(s), MaxSeq(Tail(s)))

\* list.sort(key=...) of the sequence s: stable, ascending in the pairs
\* key[j] = <<k1, k2>> compared as Python compares tuples
StableSort(s, key) ==
  LET Less(a, b) == a[1] < b[1] \/ (a[1] = b[1] /\ a[2] < b[2])
      Sorted(sv, kv) ==
        LET n == Len(sv)
            Before(a, b) == Less(kv[a], kv[b]) \/ (kv[a] = kv[b] /\ a < b)
            Rank(j) == Cardinality({m \in 1 .. n : Before(m, j)}) + 1
        IN  [r \in 1 .. n |-> sv[CHOOSE j \in 1 .. n : Rank(j) = r]] \o << >>
  IN  CHOOSE r \in {Sorted(sv, kv) : sv \in {s}, kv \in {key}} : TRUE

\* ------------------------------------------------------------------- inputs

MaxRows == 2

Names == {"A", "B"}

\* One weekly_df row as build_weekly_data writes it; load_sales_for_week reads
\* Mon..Sat only, so next_mon and next_tue take the Monday and Tuesday values.
Row(name, stk, sales, sat, sec, min_qty, timing) ==
  [product |-> name, stock |-> stk, sales |-> sales, sat |-> sat,
   sec |-> sec, min_qty |-> min_qty, timing |-> timing,
   next_mon |-> sales[1], next_tue |-> sales[2]]

\* The rows a catalog is drawn from: stock, Mon..Fri sales, Saturday sales,
\* seconds per unit, minimum batch and timing of each kind of product
Templates ==
  { Row("A", 10, <<5, 5, 5, 5, 5>>,   0, 60, 1,  "juya"),
    Row("A", 0,  <<0, 10, 0, 0, 0>>,  0, 60, 50, "juya"),
    Row("A", 0,  <<0, 0, 0, 0, 0>>,   5, 60, 0,  "juya"),
    Row("A", 50, <<5, 5, 120, 5, 5>>, 0, 60, 0,  "juya"),
    Row("A", 0,  <<300, 0, 0, 0, 0>>, 0, 60, 0,  "juya"),
    Row("kuC", 0, <<5, 5, 5, 5, 5>>,  0, 60, 0,  "juya"),
    Row("kuC", 0, <<100, 0, 0, 0, 0>>, 0, 250, 0, "juya") } \cup
  { Row(n, 0,   <<5, 5, 5, 5, 5>>,           0, 60,  0,  "ju")  : n \in Names } \cup
  { Row(n, 100, <<100, 100, 100, 100, 100>>, 0, 60,  0,  "ju")  : n \in Names } \cup
  { Row(n, 100, <<100, 100, 100, 100, 100>>, 0, 60,  0,  "ya")  : n \in Names } \cup
  { Row(n, 0,   <<100, 0, 0, 0, 0>>,         0, 250, -1, "etc") : n \in Names }

Catalogs ==
  UNION { [1 .. n -> Templates] : n \in 1 .. MaxRows }

\* df = weekly_df restricted to the rows whose Mon..Fri sales sum is > 0
WeeklySales(row) == SumSeq(row.sales)

\* variant: the rows without Mon..Fri sales are not filtered out
df_Unfiltered == weekly_df

\* lines 313-316: the rows with Mon..Fri sales above 0
df == SelectSeq(weekly_df, LAMBDA row : WeeklySales(row) > 0)

\* p.startswith("(쿠)")
IsKu(p) == p = "kuC"

\* -------------------------------------------------------------- utilities

\* variant: the timing value is ignored and both shifts are returned
get_allowed_shifts_Both(production_timing) == SHIFTS

get_allowed_shifts(production_timing) ==
  IF production_timing = "ju" THEN <<"day">>
  ELSE IF production_timing = "ya" THEN <<"night">>
  ELSE <<"day", "night">>

\* substring tests of get_urgency on the reason strings
Has2ilchiBujok(reason) == reason \in {"short2d", "short2d_ku"}

Has2ilchi(reason) ==
  reason \in {"short2d", "short2d_ku", "next2d", "next2d_ku"}

HasDaeumju(reason) ==
  reason \in {"next2d", "next2d_ku", "nextsafety", "nextsafety_ku"}

HasAnjeonjaego(reason) ==
  reason \in {"safety", "safety_ku", "nextsafety", "nextsafety_ku"}

get_urgency(reason, product, deadline_days, is_next_week) ==
    (IF Has2ilchiBujok(reason) THEN 80 ELSE 0)
  + (IF is_next_week \/ HasDaeumju(reason) THEN -30 ELSE 0)
  + (IF HasAnjeonjaego(reason) /\ ~Has2ilchi(reason) THEN 20 ELSE 0)
  + (IF deadline_days <= 0 THEN 60 ELSE IF deadline_days = 1 THEN 30 ELSE 0)

\* ------------------------------------------------- shortfall simulation

\* variant: a look-ahead of 3 days instead of 2
FutureSales_3day(row, d) ==
  IF d = NumDays - 1
  THEN row.sales[d + 1] + row.sat + row.next_mon + row.next_tue
  ELSE LET lookahead == Min(3, NumDays - d)
       IN  SumSeq([k \in 1 .. lookahead |-> row.sales[d + k]])

\* lines 343-350: the sales the stock of day d must cover (first-week pass)
FutureSales(row, d) ==
  IF d = NumDays - 1
  THEN row.sales[d + 1] + row.sat + row.next_mon + row.next_tue
  ELSE LET lookahead == Min(2, NumDays - d)
       IN  SumSeq([k \in 1 .. lookahead |-> row.sales[d + k]])

\* lines 447-453: the same for the next-week pass (no next Tuesday)
NextFutureSales(row, d) ==
  IF d = NumDays - 1
  THEN row.sales[d + 1] + row.sat + row.next_mon
  ELSE LET lookahead == Min(2, NumDays - d)
       IN  SumSeq([k \in 1 .. lookahead |-> row.sales[d + k]])

MaxDailySales(row) == MaxSeq(row.sales)

\* variant: the safety-stock condition is left out
NeedsProduction_ShortageOnly(stk, daily_sales, future_sales, max_daily_sales) ==
  stk < future_sales

\* lines 352 / 455: the day is flagged
NeedsProduction(stk, daily_sales, future_sales, max_daily_sales) ==
  stk < future_sales \/ stk - daily_sales < max_daily_sales

\* variant: the look-ahead shortage leaves the day's own sales out
Shortage_AfterToday(stk, daily_sales, future_sales, max_daily_sales) ==
  IF stk < future_sales THEN future_sales - daily_sales - stk
  ELSE max_daily_sales - (stk - daily_sales)

\* lines 353-358 / 456-461
Shortage(stk, daily_sales, future_sales, max_daily_sales) ==
  IF stk < future_sales THEN future_sales - stk
  ELSE max_daily_sales - (stk - daily_sales)

\* variant: the minimum batch is not applied
ProductionQty_NoMin(shortage, row_min_qty) ==
  CeilDiv(shortage, BATCH_SIZE) * BATCH_SIZE

\* lines 360-363 / 463-466
ProductionQty(shortage, row_min_qty) ==
  LET production_qty == CeilDiv(shortage, BATCH_SIZE) * BATCH_SIZE
      min_qty == IF row_min_qty > 0 THEN row_min_qty ELSE 0
  IN  IF min_qty > 0 THEN Max(production_qty, min_qty) ELSE production_qty

\* lines 353-358, 365-367
FirstReason(p, stk, future_sales) ==
  IF stk < future_sales
  THEN (IF IsKu(p) THEN "short2d_ku" ELSE "short2d")
  ELSE (IF IsKu(p) THEN "safety_ku" ELSE "safety")

\* lines 456-461, 468-470
NextReason(p, stk, future_sales) ==
  IF stk < future_sales
  THEN (IF IsKu(p) THEN "next2d_ku" ELSE "next2d")
  ELSE (IF IsKu(p) THEN "nextsafety_ku" ELSE "nextsafety")

\* lines 365-369
FirstDeadline(p, d) ==
  IF IsKu(p) THEN Max(0, d - 2) ELSE Min(d + 1, NumDays - 1)

\* lines 468-472
NextDeadline(p, d) ==
  IF IsKu(p) THEN Min(NumDays - 3, Max(0, d - 2)) ELSE NumDays - 1

\* the plan dict of lines 371-379 / 474-482; at_row and at_day record the
\* loop position (row, day_idx) at which the plan was appended
Plan(row, r, d, deadline, qty, reason, next_week) ==
  [product |-> row.product, deadline |-> deadline, qty |-> qty,
   sec |-> row.sec, reason |-> reason, next_week |-> next_week,
   production_timing |-> row.timing, at_row |-> r, at_day |-> d]

NoSim ==
  [pass |-> "none", row |-> 0, day_idx |-> 0, stock |-> 0, future_sales |-> 0,
   flagged |-> FALSE, shortage |-> 0, qty |-> 0, stock_end |-> 0]

EmptySlots == [d \in DAYS |-> [s \in ShiftSet |-> << >>]]

ZeroSlots == [d \in DAYS |-> [s \in ShiftSet |-> 0]]

NoLast ==
  [pass |-> "none", plan |-> 0, placed |-> FALSE, day |-> 0, shift |-> "day",
   order |-> << >>]

\* -------------------------------------------------------------------- dates

\* A date is its proleptic Gregorian ordinal (date.toordinal()); timedelta
\* arithmetic is integer arithmetic on it, and the '%Y-%m-%d' text of a date,
\* which the tables store and compare, is in one-to-one, order-preserving
\* correspondence with it.

\* date.weekday(): Monday is 0, Sunday is 6 (ordinal 1 is a Monday)
Weekday(date) == (date + 6) % 7

\* variant: isoweekday() (Monday is 1) is used for the distance to Monday
get_week_monday_Iso(selected_date) ==
  selected_date - (Weekday(selected_date) + 1)

\* lines 37-41
get_week_monday(selected_date) ==
  LET weekday == Weekday(selected_date)
      days_to_monday == weekday
  IN  selected_date - days_to_monday

\* lines 326-329: date_labels[d] is the text "mm/dd (d)" of monday + i, kept
\* as the pair of the date and the day
DateLabels(mon) == [d \in DAYS |-> <<mon + d, d>>]

\* 2026-11-02: ordinal 1 is a Monday, and so is the day 105703 weeks later
BaseMonday == 1 + 7 * 105703

\* the browser sessions that have the page open
Sessions == {1, 2}

\* no session has pressed anything
FlowIdle ==
  /\ confirm_delete = [s \in Sessions |-> FALSE]
  /\ flow_pc = [s \in Sessions |-> "page"]
  /\ owner = 0
  /\ runs = 0
  /\ run_id = [s \in Sessions |-> 0]
  /\ before = [s \in Sessions |-> {}]
  /\ pressed_for = [s \in Sessions |-> 0]

\* the table "products" is not read and the page of the stored schedules is
\* not open
OtherIdle ==
  /\ products = << >>
  /\ selected_week = 0
  /\ schedule_backup = << >>
  /\ schedule_edit_mode = FALSE
  /\ schedule_edit_week = 0
  /\ edit_pc = "closed"
  /\ next_id = 1
  /\ entered = {}
  /\ edits = << >>

\* the variables of the page around create_schedule_from_weekly, when only
\* that function is run, for the week of 2026-11-11
IoIdle ==
  /\ sales_table = {}
  /\ sales_date = BaseMonday
  /\ schedule_date = BaseMonday + 9
  /\ sales_monday = BaseMonday
  /\ sales_df = {}
  /\ inventory_df = << >>
  /\ weekly_rows = << >>
  /\ unmatched = << >>
  /\ run = 0
  /\ first_out = << >>
  /\ monday = get_week_monday(schedule_date)
  /\ date_labels = DateLabels(monday)
  /\ schedules = {}

Init ==
  /\ weekly_df \in Catalogs
  /\ pc = "plan"
  /\ i = 1
  /\ day_idx = 0
  /\ stock = 0
  /\ sim = NoSim
  /\ production_plan = << >>
  /\ additional_plan = << >>
  /\ temp_schedule = EmptySlots
  /\ temp_daily_sum = ZeroSlots
  /\ temp_daily_time = ZeroSlots
  /\ final_stocks = << >>
  /\ schedule = EmptySlots
  /\ daily_sum = ZeroSlots
  /\ daily_time = ZeroSlots
  /\ first_week_plan = << >>
  /\ next_week_plan = << >>
  /\ last = NoLast
  /\ IoIdle
  /\ FlowIdle
  /\ OtherIdle

\* lines 333-383: one iteration of the inner loop over DAYS
PlanDay ==
  /\ pc = "plan"
  /\ i <= Len(df)
  /\ LET row == df[i]
         stk == IF day_idx = 0 THEN row.stock ELSE stock
         daily_sales == row.sales[day_idx + 1]
         max_daily_sales == MaxDailySales(row)
         future_sales == FutureSales(row, day_idx)
         flagged == NeedsProduction(stk, daily_sales, future_sales, max_daily_sales)
         shortage == Shortage(stk, daily_sales, future_sales, max_daily_sales)
         production_qty == ProductionQty(shortage, row.min_qty)
         reason == FirstReason(row.product, stk, future_sales)
         deadline == FirstDeadline(row.product, day_idx)
         stock_end == IF flagged THEN stk + production_qty - daily_sales
                      ELSE stk - daily_sales
     IN  /\ production_plan' =
              IF flagged
              THEN Append(production_plan,
                          Plan(row, i, day_idx, deadline, production_qty, reason, FALSE))
              ELSE production_plan
         /\ stock' = stock_end
         /\ sim' = [pass |-> "first", row |-> i, day_idx |-> day_idx, stock |-> stk,
                    future_sales |-> future_sales, flagged |-> flagged,
                    shortage |-> IF flagged THEN shortage ELSE 0,
                    qty |-> IF flagged THEN production_qty ELSE 0,
                    stock_end |-> stock_end]
  /\ IF day_idx < NumDays - 1
     THEN /\ day_idx' = day_idx + 1
          /\ i' = i
     ELSE /\ day_idx' = 0
          /\ i' = i + 1
  /\ UNCHANGED <<weekly_df, pc, additional_plan, temp_schedule, temp_daily_sum,
                 temp_daily_time, final_stocks, schedule, daily_sum, daily_time,
                 first_week_plan, next_week_plan, last>>
  /\ UNCHANGED <<iovars, flowvars>>
  /\ UNCHANGED <<catalogvars, editvars>>

\* ---------------------------------------------------------------- placement

\* variant: every day of the week is a valid day, whatever the deadline
ValidDays_Week(deadline) == [j \in 1 .. NumDays |-> j - 1]

\* lines 396 / 510 / 561: list(range(deadline + 1))
ValidDays(deadline) == [j \in 1 .. (deadline + 1) |-> j - 1]

\* variant: the valid days are not sorted by load
DaysByLoad_Unsorted(deadline, dsum) == ValidDays(deadline)

\* lines 397 / 511: valid_days.sort(key = day + night quantity of the day)
DaysByLoad(deadline, dsum) ==
  LET valid_days == ValidDays(deadline)
  IN  StableSort(valid_days,
                 [j \in 1 .. Len(valid_days) |->
                    <<dsum[valid_days[j]]["day"] + dsum[valid_days[j]]["night"], 0>>])

\* lines 562-569: day_loads sorted by load_score
\*   total_qty / DAILY_LIMIT + total_time / (WORK_HOURS * 2),
\* compared here over the common denominator DAILY_LIMIT * WORK_HOURS * 2
LoadScore(d, dsum, dtime) ==
    (dsum[d]["day"] + dsum[d]["night"]) * (WORK_HOURS * 2)
  + (dtime[d]["day"] + dtime[d]["night"]) * DAILY_LIMIT

DaysByLoadScore(deadline, dsum, dtime) ==
  LET valid_days == ValidDays(deadline)
  IN  StableSort(valid_days,
                 [j \in 1 .. Len(valid_days) |->
                    <<LoadScore(valid_days[j], dsum, dtime), 0>>])

\* lines 516-520: shift_preference of the first-week loop on day d
FirstShiftPreference(plan, d) ==
  LET allowed_shifts == get_allowed_shifts(plan.production_timing)
      current_urgency == get_urgency(plan.reason, plan.product, plan.deadline - d, FALSE)
  IN  IF Len(allowed_shifts) = 2
      THEN (IF current_urgency >= 30 THEN <<"day", "night">> ELSE <<"night", "day">>)
      ELSE allowed_shifts

\* lines 574-579: shift_preference of the next-week loop on day d
NextShiftPreference(plan, d, dsum) ==
  LET allowed_shifts == get_allowed_shifts(plan.production_timing)
  IN  IF Len(allowed_shifts) = 2
      THEN (IF dsum[d]["day"] <= dsum[d]["night"]
            THEN <<"day", "night">> ELSE <<"night", "day">>)
      ELSE allowed_shifts

\* variant: only the working time is checked, not DAILY_LIMIT
Fits_TimeOnly(slot, slot_sum, slot_time, plan) ==
  slot_time + (plan.qty * plan.sec) <= WORK_HOURS

\* lines 404-408 / 415, 523-527 / 541, 582-586 / 600: the plan fits the slot
Fits(slot, slot_sum, slot_time, plan) ==
  IF plan.product \in DOMAIN slot
  THEN LET old_qty == slot[plan.product].qty
           new_qty == old_qty + plan.qty
           new_time == new_qty * plan.sec
       IN  /\ slot_sum - old_qty + new_qty <= DAILY_LIMIT
           /\ slot_time - (old_qty * plan.sec) + new_time <= WORK_HOURS
  ELSE /\ slot_sum + plan.qty <= DAILY_LIMIT
       /\ slot_time + (plan.qty * plan.sec) <= WORK_HOURS

\* the nested loops "for day_idx in valid_days: for shift in shift_preference"
\* with their two breaks: the (day, shift) pairs in the order they are tried
Candidates(order, pref) ==
  LET at == [k \in 1 .. Len(order) |->
               SumSeq([m \in 1 .. (k - 1) |-> Len(pref[order[m]])])]
      total == SumSeq([m \in 1 .. Len(order) |-> Len(pref[order[m]])])
  IN  [c \in 1 .. total |->
         LET k == CHOOSE k \in 1 .. Len(order) :
                    at[k] < c /\ c <= at[k] + Len(pref[order[k]])
         IN  <<order[k], pref[order[k]][c - at[k]]>>] \o << >>

\* index of the first candidate the plan fits, 0 when it fits none
FirstFit(cands, sched, dsum, dtime, plan) ==
  LET ok == {c \in 1 .. Len(cands) :
               Fits(sched[cands[c][1]][cands[c][2]], dsum[cands[c][1]][cands[c][2]],
                    dtime[cands[c][1]][cands[c][2]], plan)}
  IN  IF ok = {} THEN 0 ELSE CHOOSE c \in ok : \A e \in ok : c <= e

\* lines 409 / 417, 528 / 546, 587 / 605
NewSlotSum(slot, slot_sum, plan) ==
  IF plan.product \in DOMAIN slot
  THEN slot_sum - slot[plan.product].qty + (slot[plan.product].qty + plan.qty)
  ELSE slot_sum + plan.qty

\* lines 410 / 418, 529 / 547, 588 / 606
NewSlotTime(slot, slot_time, plan) ==
  IF plan.product \in DOMAIN slot
  THEN slot_time - (slot[plan.product].qty * plan.sec)
       + ((slot[plan.product].qty + plan.qty) * plan.sec)
  ELSE slot_time + (plan.qty * plan.sec)

\* lines 411 / 416
NewTempSlot(slot, plan) ==
  IF plan.product \in DOMAIN slot
  THEN [slot EXCEPT ![plan.product] =
          [qty |-> slot[plan.product].qty + plan.qty, sec |-> plan.sec]]
  ELSE (plan.product :> [qty |-> plan.qty, sec |-> plan.sec]) @@ slot

\* the words of a reason string: "2일치 부족" = 2ilchi bujok, "안전재고 확보" =
\* anjeonjaego hwakbo, "다음주 2일치" = daeumju 2ilchi, "다음주 안전재고" = daeumju
\* anjeonjaego, each followed by "(쿠:2일전)" = (ku:2iljeon) for a "(쿠)" product
ReasonWords(reason) ==
  CASE reason = "short2d" -> <<"2ilchi", "bujok">>
    [] reason = "safety" -> <<"anjeonjaego", "hwakbo">>
    [] reason = "next2d" -> <<"daeumju", "2ilchi">>
    [] reason = "nextsafety" -> <<"daeumju", "anjeonjaego">>
    [] reason = "short2d_ku" -> <<"2ilchi", "bujok", "(ku:2iljeon)">>
    [] reason = "safety_ku" -> <<"anjeonjaego", "hwakbo", "(ku:2iljeon)">>
    [] reason = "next2d_ku" -> <<"daeumju", "2ilchi", "(ku:2iljeon)">>
    [] reason = "nextsafety_ku" -> <<"daeumju", "anjeonjaego", "(ku:2iljeon)">>

\* the stored reason string: the parts joined by " + "
RECURSIVE JoinedReason(_)
JoinedReason(parts) ==
  IF Len(parts) = 0 THEN << >>
  ELSE IF Len(parts) = 1 THEN ReasonWords(parts[1])
  ELSE ReasonWords(parts[1]) \o <<"+">> \o JoinedReason(Tail(parts))

\* Python's "needle in hay" on strings, word by word (no word of a reason
\* is a part of another word, so the words decide the substring test)
IsSubstring(needle, hay) ==
  \E k \in 0 .. (Len(hay) - Len(needle)) :
    \A j \in 1 .. Len(needle) : hay[k + j] = needle[j]

\* variant: the reason is appended without the "not in" test
CombinedReason_Append(old_reason, reason) == Append(old_reason, reason)

\* lines 530-533 / 589-592: reason strings are kept as the sequence of the
\* parts joined by " + "; "reason not in old_reason" is the substring test
CombinedReason(old_reason, reason) ==
  IF IsSubstring(ReasonWords(reason), JoinedReason(old_reason))
  THEN old_reason
  ELSE Append(old_reason, reason)

\* variant: the entry takes the quantity of the plan instead of adding it
NewSlot_Replace(slot, plan, urgency) ==
  (plan.product :> [qty |-> plan.qty, sec |-> plan.sec,
                    reason |-> <<plan.reason>>, urgency |-> urgency]) @@ slot

\* lines 534-537 / 542-545, 593-596 / 601-604
NewSlot(slot, plan, urgency) ==
  IF plan.product \in DOMAIN slot
  THEN [slot EXCEPT ![plan.product] =
          [qty |-> slot[plan.product].qty + plan.qty, sec |-> plan.sec,
           reason |-> CombinedReason(slot[plan.product].reason, plan.reason),
           urgency |-> urgency]]
  ELSE (plan.product :> [qty |-> plan.qty, sec |-> plan.sec,
                         reason |-> <<plan.reason>>, urgency |-> urgency]) @@ slot

\* lines 386-388: the planning loop is over, the temporary placement starts
TempInit ==
  /\ pc = "plan"
  /\ i > Len(df)
  /\ pc' = "temp"
  /\ i' = 1
  /\ temp_schedule' = EmptySlots
  /\ temp_daily_sum' = ZeroSlots
  /\ temp_daily_time' = ZeroSlots
  /\ UNCHANGED <<weekly_df, day_idx, stock, sim, production_plan, additional_plan,
                 final_stocks, schedule, daily_sum, daily_time, first_week_plan,
                 next_week_plan, last>>
  /\ UNCHANGED <<iovars, flowvars>>
  /\ UNCHANGED <<catalogvars, editvars>>

\* lines 391-422: the body of the temporary placement loop for one plan
TempPlaced(plan, tsched, tsum, ttime) ==
  LET order == DaysByLoad(plan.deadline, tsum)
      allowed_shifts == get_allowed_shifts(plan.production_timing)
      cands == Candidates(order, [d \in DAYS |-> allowed_shifts])
      c == FirstFit(cands, tsched, tsum, ttime, plan)
      d == cands[c][1]
      s == cands[c][2]
  IN  IF c = 0
      THEN [schedule |-> tsched, daily_sum |-> tsum, daily_time |-> ttime,
            last |-> [pass |-> "temp", plan |-> plan, placed |-> FALSE,
                      day |-> 0, shift |-> "day", order |-> order]]
      ELSE [schedule |-> [tsched EXCEPT ![d][s] = NewTempSlot(@, plan)],
            daily_sum |-> [tsum EXCEPT ![d][s] = NewSlotSum(tsched[d][s], @, plan)],
            daily_time |-> [ttime EXCEPT ![d][s] = NewSlotTime(tsched[d][s], @, plan)],
            last |-> [pass |-> "temp", plan |-> plan, placed |-> TRUE,
                      day |-> d, shift |-> s, order |-> order]]

\* lines 390-422: one plan of the temporary placement
TempPlace ==
  /\ pc = "temp"
  /\ i <= Len(production_plan)
  /\ \E r \in {TempPlaced(production_plan[i], temp_schedule, temp_daily_sum,
                          temp_daily_time)} :
       /\ temp_schedule' = r.schedule
       /\ temp_daily_sum' = r.daily_sum
       /\ temp_daily_time' = r.daily_time
       /\ last' = r.last
  /\ i' = i + 1
  /\ UNCHANGED <<weekly_df, pc, day_idx, stock, sim, production_plan,
                 additional_plan, final_stocks, schedule, daily_sum, daily_time,
                 first_week_plan, next_week_plan>>
  /\ UNCHANGED <<iovars, flowvars>>
  /\ UNCHANGED <<catalogvars, editvars>>

\* lines 424-433: the end-of-week stock of one row under the temporary placement
FinalStockOf(row, tsched) ==
  row.stock
  + SumSeq([j \in 1 .. NumDays |->
              SumSeq([k \in 1 .. 2 |->
                        IF row.product \in DOMAIN tsched[j - 1][SHIFTS[k]]
                        THEN tsched[j - 1][SHIFTS[k]][row.product].qty
                        ELSE 0])])
  - SumSeq(row.sales)

\* final_stocks[p] is keyed by the product name: the last row of a name wins
FinalStocks(rows, tsched) ==
  [p \in {rows[j].product : j \in 1 .. Len(rows)} |->
     LET j == CHOOSE j \in 1 .. Len(rows) :
                /\ rows[j].product = p
                /\ \A m \in 1 .. Len(rows) : rows[m].product = p => m <= j
     IN  FinalStockOf(rows[j], tsched)]

\* lines 424-433: the temporary placement is over
ComputeFinalStocks ==
  /\ pc = "temp"
  /\ i > Len(production_plan)
  /\ final_stocks' = FinalStocks(df, temp_schedule)
  /\ pc' = "additional"
  /\ i' = 1
  /\ day_idx' = 0
  /\ UNCHANGED <<weekly_df, stock, sim, production_plan, additional_plan,
                 temp_schedule, temp_daily_sum, temp_daily_time, schedule,
                 daily_sum, daily_time, first_week_plan, next_week_plan, last>>
  /\ UNCHANGED <<iovars, flowvars>>
  /\ UNCHANGED <<catalogvars, editvars>>

\* lines 437-484: one iteration of the inner loop over DAYS, next-week pass
AdditionalDay ==
  /\ pc = "additional"
  /\ i <= Len(df)
  /\ LET row == df[i]
         stk == IF day_idx = 0 THEN final_stocks[row.product] ELSE stock
         daily_sales == row.sales[day_idx + 1]
         max_daily_sales == MaxDailySales(row)
         future_sales == NextFutureSales(row, day_idx)
         flagged == NeedsProduction(stk, daily_sales, future_sales, max_daily_sales)
         shortage == Shortage(stk, daily_sales, future_sales, max_daily_sales)
         production_qty == ProductionQty(shortage, row.min_qty)
         reason == NextReason(row.product, stk, future_sales)
         deadline == NextDeadline(row.product, day_idx)
         stock_end == IF flagged THEN stk + production_qty - daily_sales
                      ELSE stk - daily_sales
     IN  /\ additional_plan' =
              IF flagged
              THEN Append(additional_plan,
                          Plan(row, i, day_idx, deadline, production_qty, reason, TRUE))
              ELSE additional_plan
         /\ stock' = stock_end
         /\ sim' = [pass |-> "next", row |-> i, day_idx |-> day_idx, stock |-> stk,
                    future_sales |-> future_sales, flagged |-> flagged,
                    shortage |-> IF flagged THEN shortage ELSE 0,
                    qty |-> IF flagged THEN production_qty ELSE 0,
                    stock_end |-> stock_end]
  /\ IF day_idx < NumDays - 1
     THEN /\ day_idx' = day_idx + 1
          /\ i' = i
     ELSE /\ day_idx' = 0
          /\ i' = i + 1
  /\ UNCHANGED <<weekly_df, pc, production_plan, temp_schedule, temp_daily_sum,
                 temp_daily_time, final_stocks, schedule, daily_sum, daily_time,
                 first_week_plan, next_week_plan, last>>
  /\ UNCHANGED <<iovars, flowvars>>
  /\ UNCHANGED <<catalogvars, editvars>>

\* line 486: additional_plan.sort(key = (deadline, -qty * sec))
SortAdditional(plans) ==
  StableSort(plans,
             [j \in 1 .. Len(plans) |->
                <<plans[j].deadline, -(plans[j].qty * plans[j].sec)>>])

\* variant: the first-week plans are not sorted by urgency
SortFirstWeek_Unsorted(plans) == plans

\* lines 497-499: first_week_plan.sort(key = -urgency), the urgency being
\* get_urgency(reason, product, 0, False)
SortFirstWeek(plans) ==
  StableSort(plans,
             [j \in 1 .. Len(plans) |->
                <<-get_urgency(plans[j].reason, plans[j].product, 0, FALSE), 0>>])

\* line 487: production_plan.extend(additional_plan), after line 486
ExtendedPlan(plans, additional) == plans \o SortAdditional(additional)

\* lines 494, 497-499
FirstWeekPlan(all) == SortFirstWeek(SelectSeq(all, LAMBDA x : ~x.next_week))

\* line 495
NextWeekPlan(all) == SelectSeq(all, LAMBDA x : x.next_week)

\* lines 486-499: the next-week planning loop is over
SortAndSplit ==
  /\ pc = "additional"
  /\ i > Len(df)
  /\ \E all \in {ExtendedPlan(production_plan, additional_plan)} :
       /\ additional_plan' = SortAdditional(additional_plan)
       /\ production_plan' = all
       /\ first_week_plan' = FirstWeekPlan(all)
       /\ next_week_plan' = NextWeekPlan(all)
  /\ schedule' = EmptySlots
  /\ daily_sum' = ZeroSlots
  /\ daily_time' = ZeroSlots
  /\ pc' = "place"
  /\ i' = 1
  /\ UNCHANGED <<weekly_df, day_idx, stock, sim, temp_schedule, temp_daily_sum,
                 temp_daily_time, final_stocks, last>>
  /\ UNCHANGED <<iovars, flowvars>>
  /\ UNCHANGED <<catalogvars, editvars>>

\* the update of lines 523-549 / 582-608 for the first slot, in the order
\* the loops try them, that the plan fits; nothing changes when it fits none
Placed(pass, plan, order, pref, urgency, sched, dsum, dtime) ==
  LET cands == Candidates(order, pref)
      c == FirstFit(cands, sched, dsum, dtime, plan)
      d == cands[c][1]
      s == cands[c][2]
  IN  IF c = 0
      THEN [schedule |-> sched, daily_sum |-> dsum, daily_time |-> dtime,
            last |-> [pass |-> pass, plan |-> plan, placed |-> FALSE,
                      day |-> 0, shift |-> "day", order |-> order]]
      ELSE [schedule |-> [sched EXCEPT ![d][s] = NewSlot(@, plan, urgency[d])],
            daily_sum |-> [dsum EXCEPT ![d][s] = NewSlotSum(sched[d][s], @, plan)],
            daily_time |-> [dtime EXCEPT ![d][s] = NewSlotTime(sched[d][s], @, plan)],
            last |-> [pass |-> pass, plan |-> plan, placed |-> TRUE,
                      day |-> d, shift |-> s, order |-> order]]

\* lines 502-551: the body of the first-week placement loop for one plan
FirstPlaced(plan, sched, dsum, dtime) ==
  Placed("first", plan, DaysByLoad(plan.deadline, dsum),
         [d \in DAYS |-> FirstShiftPreference(plan, d)],
         [d \in DAYS |->
            get_urgency(plan.reason, plan.product, plan.deadline - d, FALSE)],
         sched, dsum, dtime)

\* lines 554-610: the body of the next-week placement loop for one plan
NextPlaced(plan, sched, dsum, dtime) ==
  Placed("next", plan, DaysByLoadScore(plan.deadline, dsum, dtime),
         [d \in DAYS |-> NextShiftPreference(plan, d, dsum)],
         [d \in DAYS |-> 0], sched, dsum, dtime)

\* lines 501-551: one plan of the first-week placement
PlaceFirst ==
  /\ pc = "place"
  /\ i <= Len(first_week_plan)
  /\ \E r \in {FirstPlaced(first_week_plan[i], schedule, daily_sum, daily_time)} :
       /\ schedule' = r.schedule
       /\ daily_sum' = r.daily_sum
       /\ daily_time' = r.daily_time
       /\ last' = r.last
  /\ i' = i + 1
  /\ UNCHANGED <<weekly_df, pc, day_idx, stock, sim, production_plan,
                 additional_plan, temp_schedule, temp_daily_sum, temp_daily_time,
                 final_stocks, first_week_plan, next_week_plan>>
  /\ UNCHANGED <<iovars, flowvars>>
  /\ UNCHANGED <<catalogvars, editvars>>

\* lines 553-610: one plan of the next-week placement
PlaceNext ==
  /\ pc = "place"
  /\ i > Len(first_week_plan)
  /\ i <= Len(first_week_plan) + Len(next_week_plan)
  /\ \E r \in {NextPlaced(next_week_plan[i - Len(first_week_plan)], schedule,
                          daily_sum, daily_time)} :
       /\ schedule' = r.schedule
       /\ daily_sum' = r.daily_sum
       /\ daily_time' = r.daily_time
       /\ last' = r.last
  /\ i' = i + 1
  /\ UNCHANGED <<weekly_df, pc, day_idx, stock, sim, production_plan,
                 additional_plan, temp_schedule, temp_daily_sum, temp_daily_time,
                 final_stocks, first_week_plan, next_week_plan>>
  /\ UNCHANGED <<iovars, flowvars>>
  /\ UNCHANGED <<catalogvars, editvars>>

\* line 612: return schedule, daily_sum, daily_time, date_labels, monday
Return ==
  /\ pc = "place"
  /\ i > Len(first_week_plan) + Len(next_week_plan)
  /\ pc' = "done"
  /\ UNCHANGED <<weekly_df, i, day_idx, stock, sim, production_plan,
                 additional_plan, temp_schedule, temp_daily_sum, temp_daily_time,
                 final_stocks, schedule, daily_sum, daily_time, first_week_plan,
                 next_week_plan, last>>
  /\ UNCHANGED <<iovars, flowvars>>
  /\ UNCHANGED <<catalogvars, editvars>>

Next ==
  \/ PlanDay
  \/ TempInit
  \/ TempPlace
  \/ ComputeFinalStocks
  \/ AdditionalDay
  \/ SortAndSplit
  \/ PlaceFirst
  \/ PlaceNext
  \/ Return

Spec == Init /\ [][Next]_vars

\* ------------------------------------------------------------- weekly data

\* the most rows of the table "sales", and the most inventory rows
MaxSales == 3

MaxInventory == 2

\* str.strip() on the product codes that occur
Strip(code) ==
  CASE code = " c3" -> "c3"
    [] code = "c2 " -> "c2"
    [] OTHER -> code

Sale(id, code, date, qty) ==
  [id |-> id, product_code |-> code, sale_date |-> date, quantity |-> qty]

\* the sales rows the table is drawn from: two sales of one product on one
\* day, codes with blanks around them, a Saturday, the Monday after the week
\* and a code no inventory row has
SalePool ==
  { Sale(1, "c1", BaseMonday, 5), Sale(2, "c1", BaseMonday, 7),
    Sale(3, "c2 ", BaseMonday + 1, 10), Sale(4, " c3", BaseMonday + 5, 4),
    Sale(5, "c1", BaseMonday + 7, 9), Sale(6, "c9", BaseMonday + 2, 3) }

\* an inventory row as load_inventory_from_db returns it (lines 230-235)
Item(code, name, stk, sec, timing, min_qty) ==
  [code |-> code, name |-> name, stock |-> stk, sec |-> sec,
   timing |-> timing, min_qty |-> min_qty]

ItemPool ==
  { Item("c1", "A", 0, 60, "juya", 0), Item("c2", "B", 0, 60, "ya", 50),
    Item("c3", "kuC", 10, 60, "ya", 0) }

SalesTables == {S \in SUBSET SalePool : Cardinality(S) <= MaxSales}

Inventories ==
  {q \in UNION {[1 .. n -> ItemPool] : n \in 1 .. MaxInventory} :
     \A a, b \in 1 .. Len(q) : q[a] = q[b] => a = b}

\* the dates a week is picked by: the 8 days from Sunday 2026-11-01 on
PickedDates == (BaseMonday - 1) .. (BaseMonday + 6)

\* the rows of the table "schedules" before the run: one of the week of
\* 2026-11-09 and one of the week before
OldSchedules ==
  { [week_start |-> BaseMonday + 7 * w, week_end |-> BaseMonday + 7 * w + 4,
     day_of_week |-> <<BaseMonday + 7 * w, 0>>, shift |-> "day",
     product |-> "A", quantity |-> 1, production_time |-> <<60, 3600>>,
     reason |-> <<"safety">>, urgency |-> 0, saved_by |-> 0] : w \in {0, 1} }

RECURSIVE SumQuantity(_)
SumQuantity(S) ==
  IF S = {} THEN 0
  ELSE LET r == CHOOSE r \in S : TRUE
       IN  r.quantity + SumQuantity(S \ {r})

\* variant: the upper end of the week is not applied
load_sales_for_week_Open(mon) ==
  {r \in sales_table : mon <= r.sale_date}

\* lines 139-162: the rows with monday <= sale_date <= saturday (the pages
\* of the query taken together)
load_sales_for_week(mon) ==
  {r \in sales_table : mon <= r.sale_date /\ r.sale_date <= mon + 5}

\* lines 971-978 (the page below "if not sales_df.empty" is not run
\* without sales)
LoadSales ==
  /\ pc = "load"
  /\ sales_monday' = get_week_monday(sales_date)
  /\ sales_df' = load_sales_for_week(get_week_monday(sales_date))
  /\ pc' = IF sales_df' = {} THEN "nosales" ELSE "build_start"
  /\ UNCHANGED <<weekly_df, i, day_idx, stock, sim, production_plan,
                 additional_plan, temp_schedule, temp_daily_sum, temp_daily_time,
                 final_stocks, schedule, daily_sum, daily_time, first_week_plan,
                 next_week_plan, last>>
  /\ UNCHANGED <<sales_table, sales_date, schedule_date, inventory_df,
                 weekly_rows, unmatched, run, first_out, monday, date_labels,
                 schedules>>
  /\ UNCHANGED flowvars
  /\ UNCHANGED <<catalogvars, editvars>>

\* variant: the list of unmatched names is kept from one call to the next
NewUnmatched_Kept(previous) == previous

\* line 256: unmatched = []
NewUnmatched(previous) == << >>

\* lines 247-256: build_weekly_data is entered (the page calls it on every
\* rerun)
BuildStart ==
  /\ pc = "build_start"
  /\ weekly_rows' = << >>
  /\ unmatched' = NewUnmatched(unmatched)
  /\ i' = 1
  /\ run' = run + 1
  /\ pc' = "build"
  /\ UNCHANGED <<weekly_df, day_idx, stock, sim, production_plan,
                 additional_plan, temp_schedule, temp_daily_sum, temp_daily_time,
                 final_stocks, schedule, daily_sum, daily_time, first_week_plan,
                 next_week_plan, last>>
  /\ UNCHANGED <<sales_table, sales_date, schedule_date, sales_monday, sales_df,
                 inventory_df, first_out, monday, date_labels, schedules>>
  /\ UNCHANGED flowvars
  /\ UNCHANGED <<catalogvars, editvars>>

\* variant: the codes of the sales rows are compared as they are stored
ProdSales_Raw(product_code) ==
  {r \in sales_df : r.product_code = product_code}

\* line 267: the sales rows whose stripped code is the row's code
ProdSales(product_code) ==
  {r \in sales_df : Strip(r.product_code) = product_code}

\* lines 276-277: the quantity of the sales rows of one date, 0 without any
QtyOn(prod_sales, date) ==
  SumQuantity({r \in prod_sales : r.sale_date = date})

\* lines 273-301: the weekly row of an inventory row that has sales
WeeklyRow(inv_row, prod_sales, mon) ==
  LET daily_qty == [k \in 0 .. 5 |-> QtyOn(prod_sales, mon + k)]
      next_mon_sales == {r \in prod_sales : r.sale_date = mon + 7}
      next_tue_sales == {r \in prod_sales : r.sale_date = mon + 8}
  IN  [product |-> inv_row.name, stock |-> inv_row.stock,
       sales |-> <<daily_qty[0], daily_qty[1], daily_qty[2], daily_qty[3],
                   daily_qty[4]>>,
       sat |-> daily_qty[5], sec |-> inv_row.sec, min_qty |-> inv_row.min_qty,
       timing |-> inv_row.timing,
       next_mon |-> IF next_mon_sales # {} THEN SumQuantity(next_mon_sales)
                    ELSE daily_qty[0],
       next_tue |-> IF next_tue_sales # {} THEN SumQuantity(next_tue_sales)
                    ELSE daily_qty[1]]

\* lines 258-302: one iteration of the loop over the inventory rows
BuildRow ==
  /\ pc = "build"
  /\ i <= Len(inventory_df)
  /\ LET inv_row == inventory_df[i]
         product_code == Strip(inv_row.code)
         prod_sales == ProdSales(product_code)
     IN  IF prod_sales = {}
         THEN /\ unmatched' = Append(unmatched, inv_row.name)
              /\ weekly_rows' = weekly_rows
         ELSE /\ weekly_rows' =
                   Append(weekly_rows, WeeklyRow(inv_row, prod_sales, sales_monday))
              /\ unmatched' = unmatched
  /\ i' = i + 1
  /\ UNCHANGED <<weekly_df, pc, day_idx, stock, sim, production_plan,
                 additional_plan, temp_schedule, temp_daily_sum, temp_daily_time,
                 final_stocks, schedule, daily_sum, daily_time, first_week_plan,
                 next_week_plan, last>>
  /\ UNCHANGED <<sales_table, sales_date, schedule_date, sales_monday, sales_df,
                 inventory_df, run, first_out, monday, date_labels, schedules>>
  /\ UNCHANGED flowvars
  /\ UNCHANGED <<catalogvars, editvars>>

\* line 304 and lines 1051-1056, 1131-1132: the call returns; the first call
\* is followed by a rerun of the page, the second by the creation of the
\* schedule unless weekly_df is empty
BuildReturn ==
  /\ pc = "build"
  /\ i > Len(inventory_df)
  /\ IF run = 1
     THEN /\ first_out' = <<weekly_rows, unmatched>>
          /\ pc' = "build_start"
          /\ weekly_df' = weekly_df
     ELSE /\ first_out' = first_out
          /\ pc' = IF weekly_rows = << >> THEN "nomatch" ELSE "create"
          /\ weekly_df' = weekly_rows
  /\ UNCHANGED <<i, day_idx, stock, sim, production_plan,
                 additional_plan, temp_schedule, temp_daily_sum, temp_daily_time,
                 final_stocks, schedule, daily_sum, daily_time, first_week_plan,
                 next_week_plan, last>>
  /\ UNCHANGED <<sales_table, sales_date, schedule_date, sales_monday, sales_df,
                 inventory_df, weekly_rows, unmatched, run, monday, date_labels,
                 schedules>>
  /\ UNCHANGED flowvars
  /\ UNCHANGED <<catalogvars, editvars>>

\* lines 623-627
check_schedule_exists(week_start) ==
  Cardinality({r \in schedules : r.week_start = week_start}) > 0

\* lines 618-621: the table without the rows of the week
delete_schedule(week_start) ==
  {r \in schedules : r.week_start # week_start}

\* lines 1087-1091 and 313-331: the button handler deletes the stored
\* schedule of the week and enters create_schedule_from_weekly
CreateStart ==
  /\ pc = "create"
  /\ schedules' = IF check_schedule_exists(get_week_monday(schedule_date))
                  THEN delete_schedule(get_week_monday(schedule_date))
                  ELSE schedules
  /\ monday' = get_week_monday(schedule_date)
  /\ date_labels' = DateLabels(get_week_monday(schedule_date))
  /\ pc' = "plan"
  /\ i' = 1
  /\ UNCHANGED <<weekly_df, day_idx, stock, sim, production_plan,
                 additional_plan, temp_schedule, temp_daily_sum, temp_daily_time,
                 final_stocks, schedule, daily_sum, daily_time, first_week_plan,
                 next_week_plan, last>>
  /\ UNCHANGED <<sales_table, sales_date, schedule_date, sales_monday, sales_df,
                 inventory_df, weekly_rows, unmatched, run, first_out>>
  /\ UNCHANGED flowvars
  /\ UNCHANGED <<catalogvars, editvars>>

\* the (day, shift, product) entries of a schedule
Entries(sched) ==
  UNION {{<<d, s, p>> : p \in DOMAIN sched[d][s]} : d \in DAYS, s \in ShiftSet}

\* lines 634-644: the row of one entry; production_time is the quotient
\* qty * sec / 3600 that the code rounds to one decimal, kept as the pair of
\* its terms; saved_by tells the inserts of the table apart, as its id does
ScheduleRow(sched, labels, mon, e, tag) ==
  [week_start |-> mon, week_end |-> mon + 4, day_of_week |-> labels[e[1]],
   shift |-> e[2], product |-> e[3], quantity |-> sched[e[1]][e[2]][e[3]].qty,
   production_time |-> <<sched[e[1]][e[2]][e[3]].qty * sched[e[1]][e[2]][e[3]].sec,
                         3600>>,
   reason |-> sched[e[1]][e[2]][e[3]].reason,
   urgency |-> sched[e[1]][e[2]][e[3]].urgency, saved_by |-> tag]

\* variant: only the day shift is written
ScheduleRows_DayOnly(sched, labels, mon, tag) ==
  {ScheduleRow(sched, labels, mon, e, tag) :
     e \in {x \in Entries(sched) : x[2] = "day"}}

\* lines 629-645: the rows save_schedule_to_db builds
ScheduleRows(sched, labels, mon, tag) ==
  {ScheduleRow(sched, labels, mon, e, tag) : e \in Entries(sched)}

\* lines 1092 and 629-647: the returned schedule is written to the table
Save ==
  /\ pc = "done"
  /\ schedules' = schedules \cup ScheduleRows(schedule, date_labels, monday, 1)
  /\ pc' = "saved"
  /\ UNCHANGED <<weekly_df, i, day_idx, stock, sim, production_plan,
                 additional_plan, temp_schedule, temp_daily_sum, temp_daily_time,
                 final_stocks, schedule, daily_sum, daily_time, first_week_plan,
                 next_week_plan, last>>
  /\ UNCHANGED <<sales_table, sales_date, schedule_date, sales_monday, sales_df,
                 inventory_df, weekly_rows, unmatched, run, first_out, monday,
                 date_labels>>
  /\ UNCHANGED flowvars
  /\ UNCHANGED <<catalogvars, editvars>>

\* The page from the choice of the weeks to the stored schedule: either the
\* tables vary and the picked dates are Wednesday 2026-11-04 and Wednesday
\* 2026-11-11, or the picked dates vary over the tables below.
WeeklyInit ==
  /\ \/ /\ sales_table \in SalesTables
        /\ inventory_df \in Inventories
        /\ sales_date = BaseMonday + 2
        /\ schedule_date = BaseMonday + 9
     \/ /\ sales_table = { Sale(1, "c1", BaseMonday, 5),
                           Sale(3, "c2 ", BaseMonday + 1, 10),
                           Sale(5, "c1", BaseMonday + 7, 9) }
        /\ inventory_df = << Item("c1", "A", 0, 60, "juya", 0),
                             Item("c2", "B", 0, 60, "ya", 50) >>
        /\ sales_date \in PickedDates
        /\ schedule_date \in {sales_date, sales_date + 7}
  /\ pc = "load"
  /\ weekly_df = << >>
  /\ i = 1
  /\ day_idx = 0
  /\ stock = 0
  /\ sim = NoSim
  /\ production_plan = << >>
  /\ additional_plan = << >>
  /\ temp_schedule = EmptySlots
  /\ temp_daily_sum = ZeroSlots
  /\ temp_daily_time = ZeroSlots
  /\ final_stocks = << >>
  /\ schedule = EmptySlots
  /\ daily_sum = ZeroSlots
  /\ daily_time = ZeroSlots
  /\ first_week_plan = << >>
  /\ next_week_plan = << >>
  /\ last = NoLast
  /\ sales_monday = 0
  /\ sales_df = {}
  /\ weekly_rows = << >>
  /\ unmatched = << >>
  /\ run = 0
  /\ first_out = << >>
  /\ monday = 0
  /\ date_labels = << >>
  /\ schedules = OldSchedules
  /\ FlowIdle
  /\ OtherIdle

WeeklyNext ==
  \/ LoadSales
  \/ BuildStart
  \/ BuildRow
  \/ BuildReturn
  \/ CreateStart
  \/ PlanDay
  \/ TempInit
  \/ TempPlace
  \/ ComputeFinalStocks
  \/ AdditionalDay
  \/ SortAndSplit
  \/ PlaceFirst
  \/ PlaceNext
  \/ Return
  \/ Save

WeeklySpec == WeeklyInit /\ [][WeeklyNext]_vars

\* ------------------------------------------------------- the products table

MaxProducts == 2

\* a field of a row as the database returns it: an integer, a text, or null
Num(n) == [kind |-> "int", val |-> n]

Text(t) == [kind |-> "text", val |-> t]

Null == [kind |-> "null", val |-> 0]

Product(id, code, name, stk, sec, timing, min_qty) ==
  [id |-> id, product_code |-> code, product_name |-> name,
   current_stock |-> stk, production_time_per_unit |-> sec,
   production_point |-> timing, minimum_production_quantity |-> min_qty]

\* the rows the table is drawn from: a complete row, a row without stock,
\* a row without code, a row without name, and a row whose stock is a text
\* that is no number
ProductPool ==
  { Product(1, Text("c1"), Text("A"), Num(0), Num(60), Text("juya"), Num(0)),
    Product(2, Text("c3"), Text("kuC"), Null, Num(60), Null, Null),
    Product(3, Null, Text("B"), Num(0), Num(60), Text("ya"), Num(50)),
    Product(4, Text("c2 "), Null, Num(0), Num(60), Text("ya"), Num(50)),
    Product(5, Text("c2 "), Text("B"), Text("many"), Num(60), Text("ya"), Num(50)) }

\* the table ordered by id (line 223)
ProductTables ==
  {q \in UNION {[1 .. n -> ProductPool] : n \in 1 .. MaxProducts} :
     \A a, b \in 1 .. Len(q) : a < b => q[a].id < q[b].id}

\* .astype(str).str.strip() of lines 230-231: the text of a null is "None",
\* unless the pandas of the deployment keeps a missing value missing
\* (na_kept), in which case dropna of line 240 sees it
AsStr(v, na_kept) ==
  IF v.kind = "null" THEN (IF na_kept THEN Null ELSE Text("None"))
  ELSE Text(Strip(v.val))

\* .fillna(0).astype(int) of lines 232-235 fails on a text that is no number
IntFails(v) == v.kind = "text"

\* .fillna(0).astype(int) of lines 232-235 where it does not fail
AsInt(v) == IF v.kind = "int" THEN v.val ELSE 0

\* line 234 and 238: .fillna("주야").astype(str).str.strip().replace("", "주야")
AsTiming(v) ==
  IF v.kind = "text" /\ v.val # "" THEN v.val ELSE "juya"

\* lines 227-242: the inventory rows of a table none of whose numbers fails
InventoryOf(table, na_kept) ==
  LET conv(r) == [code |-> AsStr(r.product_code, na_kept),
                  name |-> AsStr(r.product_name, na_kept),
                  item |-> Item(AsStr(r.product_code, na_kept).val,
                                AsStr(r.product_name, na_kept).val,
                                AsInt(r.current_stock),
                                AsInt(r.production_time_per_unit),
                                AsTiming(r.production_point),
                                AsInt(r.minimum_production_quantity))]
      all == [j \in 1 .. Len(table) |-> conv(table[j])]
      kept == SelectSeq(all, LAMBDA c : c.code.kind # "null" /\ c.name.kind # "null")
  IN  [j \in 1 .. Len(kept) |-> kept[j].item]

\* lines 999-1003 and 221-242: load_inventory_from_db is called; a failing
\* conversion raises out of the page, an empty result ends it with a warning
LoadInventory ==
  /\ pc = "inventory"
  /\ IF \E j \in 1 .. Len(products) :
          \/ IntFails(products[j].current_stock)
          \/ IntFails(products[j].production_time_per_unit)
          \/ IntFails(products[j].minimum_production_quantity)
     THEN /\ pc' = "inventory_failed"
          /\ inventory_df' = inventory_df
     ELSE \E na_kept \in BOOLEAN :
            /\ inventory_df' = InventoryOf(products, na_kept)
            /\ pc' = IF inventory_df' = << >> THEN "noinventory" ELSE "build_start"
  /\ UNCHANGED <<weekly_df, i, day_idx, stock, sim, production_plan,
                 additional_plan, temp_schedule, temp_daily_sum, temp_daily_time,
                 final_stocks, schedule, daily_sum, daily_time, first_week_plan,
                 next_week_plan, last>>
  /\ UNCHANGED <<sales_table, sales_date, schedule_date, sales_monday, sales_df,
                 weekly_rows, unmatched, run, first_out, monday, date_labels,
                 schedules>>
  /\ UNCHANGED <<flowvars, catalogvars, editvars>>

\* The page after the sales of the week of 2026-11-02 have been loaded, with
\* the table "products" still to be read
CatalogInit ==
  /\ products \in ProductTables
  /\ sales_table \in { { Sale(1, "c1", BaseMonday, 5),
                         Sale(3, "c2 ", BaseMonday + 1, 10),
                         Sale(4, " c3", BaseMonday + 5, 4) },
                       { Sale(3, "c2 ", BaseMonday + 1, 10) } }
  /\ sales_date = BaseMonday + 2
  /\ schedule_date = BaseMonday + 9
  /\ sales_monday = BaseMonday
  /\ sales_df = load_sales_for_week(BaseMonday)
  /\ inventory_df = << >>
  /\ pc = "inventory"
  /\ weekly_df = << >>
  /\ i = 1
  /\ day_idx = 0
  /\ stock = 0
  /\ sim = NoSim
  /\ production_plan = << >>
  /\ additional_plan = << >>
  /\ temp_schedule = EmptySlots
  /\ temp_daily_sum = ZeroSlots
  /\ temp_daily_time = ZeroSlots
  /\ final_stocks = << >>
  /\ schedule = EmptySlots
  /\ daily_sum = ZeroSlots
  /\ daily_time = ZeroSlots
  /\ first_week_plan = << >>
  /\ next_week_plan = << >>
  /\ last = NoLast
  /\ weekly_rows = << >>
  /\ unmatched = << >>
  /\ run = 0
  /\ first_out = << >>
  /\ monday = 0
  /\ date_labels = << >>
  /\ schedules = OldSchedules
  /\ FlowIdle
  /\ selected_week = 0
  /\ schedule_backup = << >>
  /\ schedule_edit_mode = FALSE
  /\ schedule_edit_week = 0
  /\ edit_pc = "closed"
  /\ next_id = 1
  /\ entered = {}
  /\ edits = << >>

CatalogNext ==
  \/ LoadInventory
  \/ BuildStart
  \/ BuildRow
  \/ BuildReturn
  \/ CreateStart
  \/ PlanDay
  \/ TempInit
  \/ TempPlace
  \/ ComputeFinalStocks
  \/ AdditionalDay
  \/ SortAndSplit
  \/ PlaceFirst
  \/ PlaceNext
  \/ Return
  \/ Save

CatalogSpec == CatalogInit /\ [][CatalogNext]_vars

\* ------------------------------------------------------ the creation flow

MaxRuns == 2

\* the weekly_df the sessions see: a product that gets produced for the
\* week, one that gets produced for the next week too, or one with Saturday
\* sales only, for which nothing is produced
FlowCatalogs ==
  { << Row("A", 0, <<0, 10, 0, 0, 0>>, 0, 60, 50, "juya") >>,
    << Row("B", 0, <<5, 5, 5, 5, 5>>, 0, 60, 0, "ju") >>,
    << Row("A", 0, <<0, 0, 0, 0, 0>>, 5, 60, 0, "juya") >> }

\* the stored rows of the week of schedule_date
WeekRows == {r \in schedules : r.week_start = get_week_monday(schedule_date)}

\* lines 1068-1081: a rerun of the page up to the confirmation; with a stored
\* schedule one of the two buttons may have been pressed
Render(s) ==
  /\ flow_pc[s] \in {"page", "failed"}
  /\ IF check_schedule_exists(get_week_monday(schedule_date))
     THEN \E pressed \in {"delete", "cancel", "none"} :
            /\ confirm_delete' =
                 [confirm_delete EXCEPT ![s] =
                    IF pressed = "delete" THEN TRUE
                    ELSE IF pressed = "cancel" THEN FALSE
                    ELSE @]
            /\ pressed_for' =
                 [pressed_for EXCEPT ![s] =
                    IF pressed = "delete" THEN get_week_monday(schedule_date)
                    ELSE IF pressed = "cancel" THEN 0
                    ELSE @]
     ELSE /\ confirm_delete' = [confirm_delete EXCEPT ![s] = TRUE]
          /\ pressed_for' = pressed_for
  /\ flow_pc' = [flow_pc EXCEPT ![s] = "page"]
  /\ UNCHANGED <<weekly_df, pc, i, day_idx, stock, sim, production_plan,
                 additional_plan, temp_schedule, temp_daily_sum, temp_daily_time,
                 final_stocks, schedule, daily_sum, daily_time, first_week_plan,
                 next_week_plan, last, iovars>>
  /\ UNCHANGED <<owner, runs, run_id, before>>
  /\ UNCHANGED <<catalogvars, editvars>>

\* lines 1083-1087: the button "스케줄 생성" is pressed; the handler asks the
\* table whether the week has rows
Click(s) ==
  /\ flow_pc[s] \in {"page", "failed"}
  /\ confirm_delete[s]
  /\ runs < MaxRuns
  /\ runs' = runs + 1
  /\ run_id' = [run_id EXCEPT ![s] = runs + 1]
  /\ before' = [before EXCEPT ![s] = WeekRows]
  /\ flow_pc' = [flow_pc EXCEPT ![s] =
                   IF check_schedule_exists(get_week_monday(schedule_date))
                   THEN "delete" ELSE "create"]
  /\ UNCHANGED <<weekly_df, pc, i, day_idx, stock, sim, production_plan,
                 additional_plan, temp_schedule, temp_daily_sum, temp_daily_time,
                 final_stocks, schedule, daily_sum, daily_time, first_week_plan,
                 next_week_plan, last, iovars>>
  /\ UNCHANGED <<confirm_delete, owner, pressed_for>>
  /\ UNCHANGED <<catalogvars, editvars>>

\* line 1088: delete_schedule; a request that raises leaves the table as it
\* is and ends the handler in its except branch (lines 1135-1136)
Delete(s) ==
  /\ flow_pc[s] = "delete"
  /\ \/ /\ schedules' = delete_schedule(get_week_monday(schedule_date))
        /\ flow_pc' = [flow_pc EXCEPT ![s] = "create"]
     \/ /\ schedules' = schedules
        /\ flow_pc' = [flow_pc EXCEPT ![s] = "failed"]
  /\ UNCHANGED <<weekly_df, pc, i, day_idx, stock, sim, production_plan,
                 additional_plan, temp_schedule, temp_daily_sum, temp_daily_time,
                 final_stocks, schedule, daily_sum, daily_time, first_week_plan,
                 next_week_plan, last>>
  /\ UNCHANGED <<sales_table, sales_date, schedule_date, sales_monday, sales_df,
                 inventory_df, weekly_rows, unmatched, run, first_out, monday,
                 date_labels>>
  /\ UNCHANGED <<confirm_delete, owner, runs, run_id, before, pressed_for>>
  /\ UNCHANGED <<catalogvars, editvars>>

\* lines 1091 and 318-331: the handler calls create_schedule_from_weekly,
\* whose locals start empty. The function touches nothing but its locals, so
\* the calls of two sessions are taken one after the other; every order of
\* the sessions' requests to the table remains possible.
Enter(s) ==
  /\ flow_pc[s] = "create"
  /\ owner = 0
  /\ owner' = s
  /\ flow_pc' = [flow_pc EXCEPT ![s] = "compute"]
  /\ monday' = get_week_monday(schedule_date)
  /\ date_labels' = DateLabels(get_week_monday(schedule_date))
  /\ pc' = "plan"
  /\ i' = 1
  /\ day_idx' = 0
  /\ stock' = 0
  /\ sim' = NoSim
  /\ production_plan' = << >>
  /\ additional_plan' = << >>
  /\ temp_schedule' = EmptySlots
  /\ temp_daily_sum' = ZeroSlots
  /\ temp_daily_time' = ZeroSlots
  /\ final_stocks' = << >>
  /\ schedule' = EmptySlots
  /\ daily_sum' = ZeroSlots
  /\ daily_time' = ZeroSlots
  /\ first_week_plan' = << >>
  /\ next_week_plan' = << >>
  /\ last' = NoLast
  /\ UNCHANGED <<weekly_df, sales_table, sales_date, schedule_date,
                 sales_monday, sales_df, inventory_df, weekly_rows, unmatched,
                 run, first_out, schedules>>
  /\ UNCHANGED <<confirm_delete, runs, run_id, before, pressed_for>>
  /\ UNCHANGED <<catalogvars, editvars>>

\* lines 1092-1095 and 629-647: save_schedule_to_db inserts the rows of the
\* returned schedule, if there are any, in one request; when the request
\* raises, the handler ends in its except branch (lines 1135-1136)
Insert(s) ==
  /\ pc = "done"
  /\ owner = s
  /\ flow_pc[s] = "compute"
  /\ \E new_rows \in {ScheduleRows(schedule, date_labels, monday, run_id[s])} :
       \/ /\ schedules' = schedules \cup new_rows
          /\ confirm_delete' = [confirm_delete EXCEPT ![s] = FALSE]
          /\ pressed_for' = [pressed_for EXCEPT ![s] = 0]
          /\ flow_pc' = [flow_pc EXCEPT ![s] = "page"]
       \/ /\ new_rows # {}
          /\ schedules' = schedules
          /\ confirm_delete' = confirm_delete
          /\ pressed_for' = pressed_for
          /\ flow_pc' = [flow_pc EXCEPT ![s] = "failed"]
  /\ owner' = 0
  /\ pc' = "idle"
  /\ UNCHANGED <<weekly_df, i, day_idx, stock, sim, production_plan,
                 additional_plan, temp_schedule, temp_daily_sum, temp_daily_time,
                 final_stocks, schedule, daily_sum, daily_time, first_week_plan,
                 next_week_plan, last>>
  /\ UNCHANGED <<sales_table, sales_date, schedule_date, sales_monday, sales_df,
                 inventory_df, weekly_rows, unmatched, run, first_out, monday,
                 date_labels>>
  /\ UNCHANGED <<runs, run_id, before>>
  /\ UNCHANGED <<catalogvars, editvars>>

\* the dates the schedule date picker is set to: a day of the week of
\* 2026-11-02 and a day of the week of 2026-11-09
ScheduleDates == {BaseMonday + 2, BaseMonday + 9}

\* line 987: another schedule date is picked, by every session at a moment
\* at which none is in the handler; nothing else of the session state changes
PickWeek ==
  /\ \A s \in Sessions : flow_pc[s] = "page"
  /\ \E picked \in ScheduleDates \ {schedule_date} : schedule_date' = picked
  /\ UNCHANGED schedvars
  /\ UNCHANGED <<sales_table, sales_date, sales_monday, sales_df, inventory_df,
                 weekly_rows, unmatched, run, first_out, monday, date_labels,
                 schedules>>
  /\ UNCHANGED <<flowvars, catalogvars, editvars>>

\* Two sessions on the page of the week of 2026-11-09, after weekly_df has
\* been built, with or without a stored schedule of that week
FlowInit ==
  /\ weekly_df \in FlowCatalogs
  /\ pc = "idle"
  /\ i = 1
  /\ day_idx = 0
  /\ stock = 0
  /\ sim = NoSim
  /\ production_plan = << >>
  /\ additional_plan = << >>
  /\ temp_schedule = EmptySlots
  /\ temp_daily_sum = ZeroSlots
  /\ temp_daily_time = ZeroSlots
  /\ final_stocks = << >>
  /\ schedule = EmptySlots
  /\ daily_sum = ZeroSlots
  /\ daily_time = ZeroSlots
  /\ first_week_plan = << >>
  /\ next_week_plan = << >>
  /\ last = NoLast
  /\ sales_table = {}
  /\ sales_date = BaseMonday + 2
  /\ schedule_date = BaseMonday + 9
  /\ sales_monday = BaseMonday
  /\ sales_df = {}
  /\ inventory_df = << >>
  /\ weekly_rows = weekly_df
  /\ unmatched = << >>
  /\ run = 2
  /\ first_out = <<weekly_df, << >> >>
  /\ monday = 0
  /\ date_labels = << >>
  /\ schedules \in {OldSchedules, {r \in OldSchedules : r.week_start = BaseMonday}}
  /\ FlowIdle
  /\ OtherIdle

FlowNext ==
  \/ PickWeek
  \/ \E s \in Sessions : Render(s)
  \/ \E s \in Sessions : Click(s)
  \/ \E s \in Sessions : Delete(s)
  \/ \E s \in Sessions : Enter(s)
  \/ PlanDay
  \/ TempInit
  \/ TempPlace
  \/ ComputeFinalStocks
  \/ AdditionalDay
  \/ SortAndSplit
  \/ PlaceFirst
  \/ PlaceNext
  \/ Return
  \/ \E s \in Sessions : Insert(s)

FlowSpec == FlowInit /\ [][FlowNext]_vars

\* ------------------------------------------------------------ properties

RECURSIVE SetSum(_, _)
SetSum(S, f) ==
  IF S = {} THEN 0
  ELSE LET x == CHOOSE y \in S : TRUE
       IN  f[x] + SetSum(S \ {x}, f)

\* sum of the quantities of the entries of one slot
SlotQty(slot) == SetSum(DOMAIN slot, [p \in DOMAIN slot |-> slot[p].qty])

\* quantity of product p in one slot, 0 when it has no entry
QtyOf(p, slot) == IF p \in DOMAIN slot THEN slot[p].qty ELSE 0

\* quantity of product p placed on day d in both shifts
DayQty(p, d) == QtyOf(p, schedule[d]["day"]) + QtyOf(p, schedule[d]["night"])

DistinctNames ==
  \A a, b \in 1 .. Len(weekly_df) :
    weekly_df[a].product = weekly_df[b].product => a = b

InPlacement == last.pass \in {"first", "next"}

\* C1. Capacity invariant: at every step of the first-week and the next-week
\* placement loops and at return, the quantities of the entries of every
\* (day, shift) slot of the schedule sum to at most DAILY_LIMIT.
C1_CapacityInvariant ==
  \A d \in DAYS, s \in ShiftSet : SlotQty(schedule[d][s]) <= DAILY_LIMIT

\* a plan that alone would fit a slot is refused while a slot stands at the ceiling
C1_Witness ==
  /\ InPlacement
  /\ ~last.placed
  /\ last.plan.qty <= DAILY_LIMIT
  /\ \E d \in DAYS, s \in ShiftSet : SlotQty(schedule[d][s]) = DAILY_LIMIT

\* inventory of a row projected from the final schedule to the end of day d
Projected(row, d) ==
  row.stock
  + SumSeq([j \in 1 .. (d + 1) |-> DayQty(row.product, j - 1)])
  - SumSeq([j \in 1 .. (d + 1) |-> row.sales[j]])

\* all plans together fit any single slot, so that no plan is ever refused
NoCapacityPressure ==
  /\ SumSeq([k \in 1 .. Len(production_plan) |-> production_plan[k].qty])
       <= DAILY_LIMIT
  /\ SumSeq([k \in 1 .. Len(production_plan) |->
               production_plan[k].qty * production_plan[k].sec]) <= WORK_HOURS

\* C2. Safety-floor guarantee: at return, for every processed product and
\* every day Mon..Fri, current inventory plus everything placed for it on
\* days 0..d minus the projected sales of days 0..d is at least the floor 0.
\* Stated for the runs in which every plan is placed in full.
C2_SafetyFloor ==
  (pc = "done" /\ DistinctNames /\ NoCapacityPressure) =>
    \A r \in 1 .. Len(df) : \A d \in DAYS : Projected(df[r], d) >= 0

\* every plan made so far
AllPlans ==
  IF pc \in {"place", "done"} THEN production_plan
  ELSE production_plan \o additional_plan

\* the names that appear in the schedule
Scheduled ==
  UNION {DOMAIN schedule[d][s] : d \in DAYS, s \in ShiftSet}

RowsNamed(p) == {r \in 1 .. Len(weekly_df) : weekly_df[r].product = p}

LastAppended ==
  IF sim.pass = "first" THEN production_plan[Len(production_plan)]
  ELSE additional_plan[Len(additional_plan)]

\* C4. Minimum-batch rule: the event created for a flagged day has quantity
\* max(shortage, minimum batch), the shortage being the amount by which the
\* stock misses the look-ahead sales or the safety level; no event of a row
\* with a positive minimum batch is smaller than that minimum.
C4_MinimumBatch ==
  /\ (sim.flagged /\ pc \in {"plan", "additional"}) =>
       LET row == df[sim.row]
           daily == row.sales[sim.day_idx + 1]
           short == IF sim.stock < sim.future_sales
                    THEN sim.future_sales - sim.stock
                    ELSE MaxDailySales(row) - (sim.stock - daily)
       IN  /\ sim.shortage = short
           /\ short > 0
           /\ sim.qty = Max(short, row.min_qty)
           /\ LastAppended.qty = sim.qty
           /\ LastAppended.at_row = sim.row
           /\ LastAppended.at_day = sim.day_idx
  /\ \A k \in 1 .. Len(AllPlans) :
       df[AllPlans[k].at_row].min_qty > 0 =>
         AllPlans[k].qty >= df[AllPlans[k].at_row].min_qty

\* minimum batch 50 and a shortage of 10 give an event of 50
C4_Witness ==
  /\ sim.flagged
  /\ df[sim.row].min_qty = 50
  /\ sim.shortage = 10
  /\ sim.qty = 50
  /\ LastAppended.qty = 50

\* the shifts a timing value makes eligible: "ju" day only, "ya" night only
ShiftAllowedByTiming(timing, s) ==
  /\ timing = "ju" => s = "day"
  /\ timing = "ya" => s = "night"

\* a step of one of the three placement loops
PlacementStep == pc \in {"temp", "place"} /\ i' = i + 1

\* the slot totals the step's loop reads before it places its plan
PreSum == IF pc = "temp" THEN temp_daily_sum ELSE daily_sum

PreTime == IF pc = "temp" THEN temp_daily_time ELSE daily_time

\* the whole plan fits the slot (d, s) as the step found it
RoomBefore(plan, d, s) ==
  /\ PreSum[d][s] + plan.qty <= DAILY_LIMIT
  /\ PreTime[d][s] + plan.qty * plan.sec <= WORK_HOURS

\* C5. Shift eligibility: in every placement pass a slot changes only by
\* receiving the plan of the step, and a day-only plan is received by a day
\* slot only, a night-only plan by a night slot only, also when none of its
\* eligible slots has room; a plan of any other timing value is refused only
\* when no slot of either shift within its deadline has room.
C5_ShiftEligibility ==
  [][PlacementStep =>
       /\ \A d \in DAYS, s \in ShiftSet :
            (schedule'[d][s] # schedule[d][s]
               \/ temp_schedule'[d][s] # temp_schedule[d][s]) =>
              /\ last'.placed
              /\ last'.day = d
              /\ last'.shift = s
              /\ ShiftAllowedByTiming(last'.plan.production_timing, s)
       /\ (~last'.placed /\ last'.plan.production_timing \notin {"ju", "ya"}) =>
            \A d \in 0 .. last'.plan.deadline, s \in ShiftSet :
              ~RoomBefore(last'.plan, d, s)]_vars

\* a day-only plan is refused although a night slot within its deadline
\* would take it whole
C5_Witness ==
  /\ InPlacement
  /\ ~last.placed
  /\ last.plan.production_timing = "ju"
  /\ \E d \in 0 .. last.plan.deadline :
       /\ daily_sum[d]["night"] + last.plan.qty <= DAILY_LIMIT
       /\ daily_time[d]["night"] + last.plan.qty * last.plan.sec <= WORK_HOURS

\* C6. Unplaceable remainder: when a plan is not seated in full, the part
\* that fits is placed and kept, so that afterwards no eligible slot within
\* its deadline has room left for even one more unit of it.
C6_PartialKept ==
  (InPlacement /\ ~last.placed) =>
    \A d \in 0 .. last.plan.deadline, s \in ShiftSet :
      ShiftAllowedByTiming(last.plan.production_timing, s) =>
        ~(/\ daily_sum[d][s] + 1 <= DAILY_LIMIT
          /\ daily_time[d][s] + last.plan.sec <= WORK_HOURS)

LoadBefore(d) ==
  IF pc = "place" /\ i > Len(first_week_plan)
  THEN (PreSum[d]["day"] + PreSum[d]["night"]) * (2 * WORK_HOURS)
       + (PreTime[d]["day"] + PreTime[d]["night"]) * DAILY_LIMIT
  ELSE PreSum[d]["day"] + PreSum[d]["night"]

\* days d and e carry the very same totals in the terms of that load
TiedBefore(d, e) ==
  /\ PreSum[d]["day"] + PreSum[d]["night"] = PreSum[e]["day"] + PreSum[e]["night"]
  /\ (pc = "place" /\ i > Len(first_week_plan)) =>
       PreTime[d]["day"] + PreTime[d]["night"]
         = PreTime[e]["day"] + PreTime[e]["night"]

\* some eligible shift of day d has room for the whole plan
DayHasRoom(plan, d) ==
  \E s \in ShiftSet :
    ShiftAllowedByTiming(plan.production_timing, s) /\ RoomBefore(plan, d, s)

Processing == first_week_plan \o next_week_plan

\* plan a was appended to the plan list before plan b
InsertedBefore(a, b) ==
  \/ a.at_row < b.at_row
  \/ a.at_row = b.at_row /\ a.at_day < b.at_day

ReasonClass(plan) == IF plan.reason \in {"short2d", "short2d_ku"} THEN 0 ELSE 1

Scenario1 ==
  weekly_df = <<Row("A", 10, <<5, 5, 5, 5, 5>>, 0, 60, 1, "juya")>>

\* the first-week plan of row 1 flagged for day d, if any
FlaggedFor(d) ==
  {k \in 1 .. Len(production_plan) :
     /\ ~production_plan[k].next_week
     /\ production_plan[k].at_row = 1
     /\ production_plan[k].at_day = d}

Horizon(row) == row.sales \o <<row.next_mon, row.next_tue>>

\* the running stock drops below 0 within the 3 days d, d+1, d+2
Breach3(row, d, stk) ==
  LET h == Horizon(row)
  IN  \E n \in 1 .. 3 :
        /\ d + n <= Len(h)
        /\ stk - SumSeq([k \in 1 .. n |-> h[d + k]]) < 0

TwoDaySales(row, d, pass) ==
  IF d < 4 THEN row.sales[d + 1] + row.sales[d + 2]
  ELSE row.sales[5] + row.sat + row.next_mon
       + (IF pass = "first" THEN row.next_tue ELSE 0)

Parts(reason) == {reason[k] : k \in 1 .. Len(reason)}

\* C11. Slot accumulation: when a plan is placed into a slot of the schedule
\* that already holds its product, the slot keeps the same products, one
\* entry each, the entry's quantity becomes the old quantity plus the plan's,
\* and its reason consists of the old reasons and the plan's reason, each
\* exactly once.
C11_SlotAccumulation ==
  [][(pc = "place" /\ i' = i + 1 /\ last'.placed
        /\ last'.plan.product \in DOMAIN schedule[last'.day][last'.shift]) =>
       LET p == last'.plan.product
           old == schedule[last'.day][last'.shift]
           new == schedule'[last'.day][last'.shift]
       IN  /\ DOMAIN new = DOMAIN old
           /\ \A q \in DOMAIN old \ {p} : new[q] = old[q]
           /\ new[p].qty = old[p].qty + last'.plan.qty
           /\ Parts(new[p].reason) = Parts(old[p].reason) \cup {last'.plan.reason}
           /\ \A j, k \in 1 .. Len(new[p].reason) :
                new[p].reason[j] = new[p].reason[k] => j = k]_vars

\* a plan joins an entry of its product and adds a second reason to it, while
\* another entry with a single reason holds more than any one plan of its
\* product: it took several plans of the same reason
C11_Witness ==
  /\ InPlacement
  /\ last.placed
  /\ LET e == schedule[last.day][last.shift][last.plan.product]
     IN  /\ Len(e.reason) = 2
         /\ e.reason[2] = last.plan.reason
         /\ e.qty > last.plan.qty
  /\ \E d \in DAYS, s \in ShiftSet :
       \E q \in DOMAIN schedule[d][s] :
         /\ Len(schedule[d][s][q].reason) = 1
         /\ \A k \in 1 .. Len(production_plan) :
              production_plan[k].product = q =>
                production_plan[k].qty < schedule[d][s][q].qty

\* the code names no mutual-exclusion set; the claim is taken for the set
\* made of the products A and B
MutualExclusionSet == {"A", "B"}

\* the products with an entry on day d, in either shift
ProductsOn(d) == DOMAIN schedule[d]["day"] \cup DOMAIN schedule[d]["night"]

\* C12. Exclusion invariant: on every day of the produced schedule at most
\* one product of the mutual-exclusion set appears across both shifts.
C12_Exclusion ==
  \A d \in DAYS : Cardinality(MutualExclusionSet \cap ProductsOn(d)) <= 1

\* the code names no capacity-exempt set; the claim is taken for the set
\* made of the product B
CapacityExemptSet == {"B"}

\* sum of the quantities of the entries of a slot that are not exempt
NonExemptQty(slot) ==
  SetSum(DOMAIN slot \ CapacityExemptSet,
         [p \in DOMAIN slot \ CapacityExemptSet |-> slot[p].qty])

\* C13. Exemption invariant: a plan of a capacity-exempt product is never
\* refused, and the running total of a slot that the ceiling check reads
\* counts the entries of the other products only.
C13_Exemption ==
  /\ (InPlacement /\ ~last.placed) => last.plan.product \notin CapacityExemptSet
  /\ pc \in {"place", "done"} =>
       \A d \in DAYS, s \in ShiftSet :
         daily_sum[d][s] = NonExemptQty(schedule[d][s])

\* build_weekly_data has returned for the second time
Built == run = 2 /\ pc \notin {"build_start", "build"}

\* some sales row handed to build_weekly_data carries the code, blanks aside
HasSales(code) == \E r \in sales_df : Strip(r.product_code) = code

\* how often a value occurs in a list
Count(list, x) == Cardinality({k \in 1 .. Len(list) : list[k] = x})

WeeklyNames == [k \in 1 .. Len(weekly_rows) |-> weekly_rows[k].product]

\* C14. Unmatched products: every inventory row is in exactly one of the two
\* outputs of build_weekly_data, the weekly data when a sales row carries
\* its code and the unmatched list when none does; no unmatched product is
\* planned, scheduled or stored.
C14_Unmatched ==
  Built =>
    /\ Len(weekly_rows) + Len(unmatched) = Len(inventory_df)
    /\ \A k \in 1 .. Len(inventory_df) :
         IF HasSales(inventory_df[k].code)
         THEN /\ Count(WeeklyNames, inventory_df[k].name) = 1
              /\ Count(unmatched, inventory_df[k].name) = 0
         ELSE /\ Count(WeeklyNames, inventory_df[k].name) = 0
              /\ Count(unmatched, inventory_df[k].name) = 1
    /\ \A k \in 1 .. Len(unmatched) :
         /\ unmatched[k] \notin Scheduled
         /\ \A j \in 1 .. Len(production_plan) :
              production_plan[j].product # unmatched[k]
         /\ \A r \in schedules : r.saved_by = 1 => r.product # unmatched[k]

\* a run with an unmatched product ends with a stored schedule of the others
C14_Witness ==
  /\ pc = "saved"
  /\ Len(unmatched) > 0
  /\ \E r \in schedules : r.saved_by = 1

\* the sales rows of the window that carry the code and fall on weekday w
OnWeekday(code, w) ==
  {r \in sales_df : Strip(r.product_code) = code /\ (r.sale_date - BaseMonday) % 7 = w}

\* the ceiling of the total sold on the weekday over the number of distinct
\* dates of that weekday in the window, 0 when there is none
Profile(code, w) ==
  LET dates == {r.sale_date : r \in OnWeekday(code, w)}
      total == SumQuantity(OnWeekday(code, w))
  IN  IF dates = {} THEN 0
      ELSE (total + Cardinality(dates) - 1) \div Cardinality(dates)

\* C15. Weekday demand profile: the quantity of every weekly row for each of
\* Mon..Sat is the ceiling of the total sold on that weekday in the window
\* load_sales_for_week read, divided by the number of distinct dates of that
\* weekday in the window.
C15_WeekdayProfile ==
  Built =>
    \A k \in 1 .. Len(inventory_df), j \in 1 .. Len(weekly_rows) :
      weekly_rows[j].product = inventory_df[k].name =>
        /\ \A w \in 0 .. 4 :
             weekly_rows[j].sales[w + 1] = Profile(inventory_df[k].code, w)
        /\ weekly_rows[j].sat = Profile(inventory_df[k].code, 5)

\* two sales rows of one product on the Monday of the week add up, a sale
\* of the Monday after stays outside, and a weekday without sales gives 0
C15_Witness ==
  /\ Built
  /\ Cardinality(OnWeekday("c1", 0)) = 2
  /\ \E r \in sales_table : r.product_code = "c1" /\ r.sale_date = sales_monday + 7
  /\ \E j \in 1 .. Len(weekly_rows) :
       /\ weekly_rows[j].product = "A"
       /\ weekly_rows[j].sales[1] = 12
       /\ weekly_rows[j].sales[2] = 0

\* C16. Determinism of the demand computation: the second run of
\* build_weekly_data on the same sales rows, inventory rows and week returns
\* the weekly rows and the unmatched list the first run returned.
C16_Deterministic ==
  Built => <<weekly_rows, unmatched>> = first_out

\* both outputs are non-empty after the second run
C16_Witness ==
  /\ Built
  /\ Len(first_out[1]) > 0
  /\ Len(first_out[2]) > 0
  /\ Len(unmatched) > 0

\* m is the Monday of the week of date d
MondayOf(d, m) ==
  /\ (m - BaseMonday) % 7 = 0
  /\ m <= d
  /\ d - m <= 6
  /\ get_week_monday(m) = m

\* C17. Week normalisation: the week start computed from a picked date is a
\* Monday, not after the date, at most 6 days before it, and normalising it
\* again returns it.
C17_WeekMonday ==
  /\ pc # "load" => MondayOf(sales_date, sales_monday)
  /\ monday # 0 => MondayOf(schedule_date, monday)

\* a Sunday is normalised to the Monday 6 days before it
C17_Witness ==
  /\ pc # "load"
  /\ sales_monday = sales_date - 6
  /\ monday # 0
  /\ monday = schedule_date - 6

\* the rows the run wrote
Written == {r \in schedules : r.saved_by = 1}

\* C18. Schedule assembly is a pure projection: after the save the table
\* holds, besides the rows it held before, exactly one row for every (day,
\* shift, product) entry of the returned schedule, with the entry's quantity
\* and reason, the week's Monday as week start and the day 4 days later as
\* week end; an empty schedule adds no row.
C18_Projection ==
  pc = "saved" =>
    /\ Cardinality(Written) = Cardinality(Entries(schedule))
    /\ \A e \in Entries(schedule) :
         \E r \in Written :
           /\ r.day_of_week = <<monday + e[1], e[1]>>
           /\ r.shift = e[2]
           /\ r.product = e[3]
           /\ r.quantity = schedule[e[1]][e[2]][e[3]].qty
           /\ r.reason = schedule[e[1]][e[2]][e[3]].reason
    /\ \A r \in Written :
         /\ MondayOf(schedule_date, r.week_start)
         /\ r.week_end = r.week_start + 4
    /\ schedules \ Written = {r \in OldSchedules : r.week_start # monday}

\* a schedule with entries in both shifts has been written
C18_Witness ==
  /\ pc = "saved"
  /\ \E r, q \in Written : r.shift = "day" /\ q.shift = "night"
  /\ \E r \in schedules : r.saved_by = 0

\* C19: when a creation run of a week ends in the handler's except branch,
\* with no other run started meanwhile, the stored rows of the week are
\* those stored when the run started
C19_AbortKeepsRows ==
  \A s \in Sessions :
    (flow_pc[s] = "failed" /\ runs = 1) => WeekRows = before[s]

\* C20: the stored rows of one week_start all come from a single run
C20_SingleRun ==
  \A r1 \in schedules : \A r2 \in schedules :
    r1.week_start = r2.week_start => r1.saved_by = r2.saved_by

\* the deadline of a plan as its kind, its product and the day it was
\* detected on give it
DeadlineOf(plan) ==
  IF plan.next_week
  THEN (IF IsKu(plan.product) THEN Min(2, Max(0, plan.at_day - 2)) ELSE 4)
  ELSE (IF IsKu(plan.product) THEN Max(0, plan.at_day - 2)
        ELSE Min(plan.at_day + 1, 4))

\* C23. Placement deadline: the plan a step of the temporary, the first-week
\* or the next-week placement has placed sits on a day no later than its
\* deadline, and every plan made carries the deadline min(i+1, 4) (first
\* week), max(0, i-2) (first week, "(쿠)" product), 4 (next week) or
\* min(2, max(0, i-2)) (next week, "(쿠)" product) of the day i it was
\* detected on.
C23_PlacementDeadline ==
  /\ (last.pass # "none" /\ last.placed) => last.day <= last.plan.deadline
  /\ \A k \in 1 .. Len(AllPlans) : AllPlans[k].deadline = DeadlineOf(AllPlans[k])

\* a plan with a deadline before Friday is placed on its deadline day, the
\* earlier days being loaded, while a later day is empty
C23_Witness ==
  /\ InPlacement
  /\ last.placed
  /\ last.plan.deadline < NumDays - 1
  /\ last.day = last.plan.deadline
  /\ last.day > 0
  /\ \E d \in (last.day + 1) .. (NumDays - 1) :
       daily_sum[d]["day"] + daily_sum[d]["night"] = 0

\* sum of quantity times unit seconds of the entries of one slot
SlotTime(slot) ==
  SetSum(DOMAIN slot, [p \in DOMAIN slot |-> slot[p].qty * slot[p].sec])

\* C25. Time-capacity invariant: after every step of both placement loops
\* and at return, quantity times unit seconds of the entries of every
\* (day, shift) slot of the schedule sum to at most WORK_HOURS.
C25_TimeCapacity ==
  \A d \in DAYS, s \in ShiftSet : SlotTime(schedule[d][s]) <= WORK_HOURS

\* C26. Bookkeeping consistency: at every point of the final placement and
\* at return, daily_sum of every slot is the sum of the quantities of its
\* entries and daily_time the sum of their quantity times unit seconds.
C26_Bookkeeping ==
  \A d \in DAYS, s \in ShiftSet :
    /\ daily_sum[d][s] = SlotQty(schedule[d][s])
    /\ daily_time[d][s] = SlotTime(schedule[d][s])

\* quantity of product p in the whole schedule
TotalQty(p, sched) ==
  SumSeq([j \in 1 .. NumDays |->
            QtyOf(p, sched[j - 1]["day"]) + QtyOf(p, sched[j - 1]["night"])])

\* the plans the two final loops have gone through so far
Processed ==
  IF pc = "done" THEN Processing
  ELSE IF pc = "place" THEN SubSeq(Processing, 1, i - 1)
  ELSE << >>

\* sum of the quantities of the plans of product p in a sequence of plans
PlannedQty(p, plans) ==
  SumSeq([k \in 1 .. Len(plans) |->
            IF plans[k].product = p THEN plans[k].qty ELSE 0])

\* a step of the first-week or the next-week placement loop
FinalPlacementStep == pc = "place" /\ i' = i + 1

\* C27. All-or-nothing placement: a step of the final placement either adds
\* the full quantity of its plan to one (day, shift) slot and leaves every
\* other slot and every other entry as they were, or changes nothing; the
\* total quantity of a product in the schedule grows by the quantity of each
\* placed plan of it and by nothing else, and never exceeds the quantities
\* of the plans of the product processed so far.
C27_AllOrNothing ==
  [][FinalPlacementStep =>
       LET plan == last'.plan
           p == plan.product
       IN  /\ IF last'.placed
              THEN /\ QtyOf(p, schedule'[last'.day][last'.shift])
                        = QtyOf(p, schedule[last'.day][last'.shift]) + plan.qty
                   /\ \A d \in DAYS, s \in ShiftSet :
                        <<d, s>> # <<last'.day, last'.shift>> =>
                          schedule'[d][s] = schedule[d][s]
                   /\ \A q \in DOMAIN schedule[last'.day][last'.shift] :
                        q # p => schedule'[last'.day][last'.shift][q]
                                   = schedule[last'.day][last'.shift][q]
                   /\ TotalQty(p, schedule') = TotalQty(p, schedule) + plan.qty
              ELSE schedule' = schedule
           /\ \A q \in Scheduled' :
                TotalQty(q, schedule') <= PlannedQty(q, Processing)]_vars

\* a plan joins an entry of its product while the product also sits in
\* another slot, and an earlier or later plan of the run is refused
C27_Witness ==
  /\ InPlacement
  /\ last.placed
  /\ QtyOf(last.plan.product, schedule[last.day][last.shift]) > last.plan.qty
  /\ TotalQty(last.plan.product, schedule)
       > QtyOf(last.plan.product, schedule[last.day][last.shift])
  /\ TotalQty(last.plan.product, schedule)
       < PlannedQty(last.plan.product, Processed)

\* C29. Planning-pass stock stays non-negative: in the first-week and in
\* the next-week pass, the simulated stock of every row after each day's
\* production is added and its sales are subtracted is at least 0 (all sales
\* of the catalogs are non-negative), whatever stock the pass started from.
C29_StockNonNegative ==
  (sim.pass # "none" /\ pc \in {"plan", "additional"}) =>
    /\ sim.stock_end >= 0
    /\ stock = sim.stock_end
    /\ sim.stock_end =
         sim.stock + sim.qty - df[sim.row].sales[sim.day_idx + 1]

\* the next-week pass starts from a negative end-of-week stock, left by a
\* plan that was not placed, and lifts it on its first day
C29_Witness ==
  /\ sim.pass = "next"
  /\ pc = "additional"
  /\ sim.stock < 0
  /\ sim.flagged
  /\ sim.stock_end >= 0
  /\ df[sim.row].sales[sim.day_idx + 1] > 0

\* the first-week placement loop is over and no next-week plan is placed yet
FirstWeekPlaced == pc = "place" /\ i = Len(first_week_plan) + 1

\* C30. Temporary and final placement agree: when the first-week loop of
\* the final placement is over, every product has in the final schedule the
\* quantity it had in the temporary schedule, so that final_stocks, from
\* which the next-week plans were made, is the end-of-week stock the placed
\* first-week plans give.
C30_PassesAgree ==
  FirstWeekPlaced =>
    /\ \A r \in 1 .. Len(df) :
         TotalQty(df[r].product, schedule) = TotalQty(df[r].product, temp_schedule)
    /\ final_stocks = FinalStocks(df, schedule)

\* a row with a missing code or name, or with a stock or a production time
\* that is no number
Malformed(r) ==
  \/ r.product_code.kind = "null"
  \/ r.product_name.kind = "null"
  \/ r.current_stock.kind = "text"
  \/ r.production_time_per_unit.kind = "text"

\* C21. Malformed input rows: the load of the products table never aborts,
\* and what it hands to build_weekly_data and the scheduling run are the
\* rows of the table that are not malformed, the malformed ones skipped.
C21_MalformedSkipped ==
  pc # "inventory" =>
    /\ pc # "inventory_failed"
    /\ inventory_df =
         InventoryOf(SelectSeq(products, LAMBDA r : ~Malformed(r)), FALSE)

\* C24. Replacing an existing schedule requires confirmation: whenever the
\* handler of a session deletes the stored schedule of the selected week,
\* that session has pressed "삭제 후 새로 생성" while this week was selected
\* (and has not cancelled or completed a run since).
C24_DeleteConfirmed ==
  [][\A s \in Sessions :
       (flow_pc[s] = "delete" /\ flow_pc'[s] = "create" /\ schedules' # schedules)
         => pressed_for[s] = get_week_monday(schedule_date)]_vars

\* ------------------------------------------ the page of the stored schedules
\* One session on the page "스케줄 조회" (lines 1140-1443) with the table
\* "schedules". The rows of this part carry their id; production_time is in
\* tenths of an hour (the table keeps one decimal).

\* the entries into edit mode and changes of rows the page is followed for
MaxEdits == 4

\* the quantities the number input of a row is set to (min_value=1)
Quantities == {1, 2}

StoredRow(id, week_start, day, shift, product, quantity, production_time, reason) ==
  [id |-> id, week_start |-> week_start, week_end |-> week_start + 4,
   day_of_week |-> <<week_start + day, day>>, shift |-> shift,
   product |-> product, quantity |-> quantity,
   production_time |-> production_time, reason |-> reason, urgency |-> 0]

\* the tables the page is opened on: the weeks of 2026-11-02 and 2026-11-09,
\* or the week of 2026-11-09 alone
StoredTables ==
  { { StoredRow(1, BaseMonday, 0, "day", "A", 1, 5, <<"safety">>),
      StoredRow(2, BaseMonday + 7, 0, "day", "A", 2, 5, <<"short2d">>),
      StoredRow(3, BaseMonday + 7, 1, "night", "B", 1, 3, <<"safety">>) },
    { StoredRow(1, BaseMonday + 7, 0, "day", "A", 2, 5, <<"short2d">>) } }

RECURSIVE OrderById(_)
\* .order("id"): the rows as a sequence in the order of their ids
OrderById(rows) ==
  IF rows = {} THEN << >>
  ELSE LET r == CHOOSE x \in rows : \A y \in rows : x.id <= y.id
       IN  <<r>> \o OrderById(rows \ {r})

RECURSIVE Descending(_)
Descending(S) ==
  IF S = {} THEN << >>
  ELSE LET w == CHOOSE x \in S : \A y \in S : x >= y
       IN  <<w>> \o Descending(S \ {w})

\* lines 710-723: the distinct weeks of the table, the latest first (a week
\* is named by its week_start; its week_end is week_start + 4 in every row)
get_all_weeks(table) == Descending({r.week_start : r \in table})

\* lines 648-654: the rows of a week in the order of their ids
load_schedule_from_db(week_start) ==
  OrderById({r \in schedules : r.week_start = week_start})

\* line 1157
is_edit_mode == schedule_edit_week = selected_week /\ schedule_edit_mode

\* lines 1145-1155: the page shows the block of the selected week, which is
\* one of get_all_weeks() and has rows
WeekShown ==
  /\ edit_pc # "closed"
  /\ selected_week # 0
  /\ load_schedule_from_db(selected_week) # << >>

\* lines 1148-1149: the selectbox after the run that follows a change of the
\* table. With the same options the choice stays; with other options the
\* widget is either kept with its choice (when that is still an option) or
\* built anew on its first option, depending on the Streamlit version
Reselect(table) ==
  LET opts == get_all_weeks(table)
  IN  IF opts = << >> THEN {0}
      ELSE IF opts = get_all_weeks(schedules) THEN {selected_week}
      ELSE {opts[1]} \cup {w \in {selected_week} : \E k \in DOMAIN opts : opts[k] = w}

\* the part of the state the page of the stored schedules leaves alone
EditFrame ==
  /\ UNCHANGED schedvars
  /\ UNCHANGED <<sales_table, sales_date, schedule_date, sales_monday, sales_df,
                 inventory_df, weekly_rows, unmatched, run, first_out, monday,
                 date_labels>>
  /\ UNCHANGED flowvars
  /\ UNCHANGED catalogvars

\* lines 1140-1149: the menu is set to the page; the selectbox starts on its
\* first option
OpenView ==
  /\ edit_pc = "closed"
  /\ edit_pc' = "view"
  /\ selected_week' = IF get_all_weeks(schedules) = << >> THEN 0
                      ELSE get_all_weeks(schedules)[1]
  /\ UNCHANGED <<schedules, schedule_backup, schedule_edit_mode,
                 schedule_edit_week, next_id, entered, edits>>
  /\ EditFrame

\* another page of the menu is chosen; the session state stays
CloseView ==
  /\ edit_pc # "closed"
  /\ edit_pc' = "closed"
  /\ selected_week' = 0
  /\ UNCHANGED <<schedules, schedule_backup, schedule_edit_mode,
                 schedule_edit_week, next_id, entered, edits>>
  /\ EditFrame

\* line 1149: another week is chosen
SelectWeek ==
  /\ edit_pc # "closed"
  /\ \E k \in DOMAIN get_all_weeks(schedules) :
       /\ get_all_weeks(schedules)[k] # selected_week
       /\ selected_week' = get_all_weeks(schedules)[k]
  /\ edit_pc' = "view"
  /\ UNCHANGED <<schedules, schedule_backup, schedule_edit_mode,
                 schedule_edit_week, next_id, entered, edits>>
  /\ EditFrame

\* lines 675-683
backup_schedule_to_session(week_start) == load_schedule_from_db(week_start)

\* lines 1161-1166: "수정"
EnterEdit ==
  /\ WeekShown
  /\ ~is_edit_mode
  /\ Len(edits) < MaxEdits
  /\ schedule_backup' = backup_schedule_to_session(selected_week)
  /\ schedule_edit_mode' = TRUE
  /\ schedule_edit_week' = selected_week
  /\ entered' = {r \in schedules : r.week_start = selected_week}
  /\ edits' = Append(edits, "enter")
  /\ edit_pc' = "view"
  /\ UNCHANGED <<schedules, selected_week, next_id>>
  /\ EditFrame

\* lines 1167-1173: "수정 완료"
Done ==
  /\ WeekShown
  /\ is_edit_mode
  /\ schedule_edit_mode' = FALSE
  /\ schedule_edit_week' = 0
  /\ schedule_backup' = << >>
  /\ edit_pc' = "view"
  /\ UNCHANGED <<schedules, selected_week, next_id, entered, edits>>
  /\ EditFrame

\* lines 656-658
delete_schedule_row(row_id) == {r \in schedules : r.id # row_id}

\* lines 1376-1378 and 1415-1417: the bin button of a row
DeleteRow ==
  /\ WeekShown
  /\ is_edit_mode
  /\ Len(edits) < MaxEdits
  /\ \E k \in DOMAIN load_schedule_from_db(selected_week) :
       \E table \in {delete_schedule_row(load_schedule_from_db(selected_week)[k].id)} :
         /\ schedules' = table
         /\ selected_week' \in Reselect(table)
  /\ edit_pc' = "view"
  /\ edits' = Append(edits, "delete")
  /\ UNCHANGED <<schedule_backup, schedule_edit_mode, schedule_edit_week,
                 next_id, entered>>
  /\ EditFrame

\* line 1402: round(new_qty * (production_time / quantity), 1) in tenths; a
\* quotient half way between two tenths goes to either, as the binary value
\* of the product decides
NewProductionTime(row, new_qty) ==
  LET n == new_qty * row.production_time
      q == n \div row.quantity
      rest == n % row.quantity
  IN  IF 2 * rest < row.quantity THEN {q}
      ELSE IF 2 * rest > row.quantity THEN {q + 1}
      ELSE {q, q + 1}

\* lines 1390-1403: the keyword arguments "적용" passes for a row
Updates(row, move_day, move_shift, new_qty) ==
  LET moved == move_day # row.day_of_week \/ move_shift # row.shift
      qty_changed == new_qty # row.quantity
  IN  { [r EXCEPT !.day_of_week = IF moved THEN move_day ELSE @,
                  !.shift = IF moved THEN move_shift ELSE @,
                  !.quantity = new_qty,
                  !.production_time = IF qty_changed /\ row.quantity > 0
                                      THEN t ELSE @] :
          r \in {row}, t \in NewProductionTime(row, new_qty) }

\* lines 660-673
update_schedule_row(row_id, updated) ==
  {IF r.id = row_id THEN updated ELSE r : r \in schedules}

\* lines 1359 and 1241: the days a row can be moved or added to
day_labels(week_start) ==
  {r.day_of_week : r \in {x \in schedules : x.week_start = week_start}}

\* lines 1379-1404 and 1418-1443: "적용" of a row that was moved or whose
\* quantity was changed
UpdateRow ==
  /\ WeekShown
  /\ is_edit_mode
  /\ Len(edits) < MaxEdits
  /\ \E k \in DOMAIN load_schedule_from_db(selected_week) :
       \E move_day \in day_labels(selected_week), move_shift \in ShiftSet,
          new_qty \in Quantities :
         \E updated \in Updates(load_schedule_from_db(selected_week)[k],
                                move_day, move_shift, new_qty) :
           /\ updated # load_schedule_from_db(selected_week)[k]
           /\ schedules' = update_schedule_row(updated.id, updated)
  /\ edit_pc' = "view"
  /\ edits' = Append(edits, "update")
  /\ UNCHANGED <<selected_week, schedule_backup, schedule_edit_mode,
                 schedule_edit_week, next_id, entered>>
  /\ EditFrame

\* lines 1293-1311: "제품 추가" with the product C, one unit and no time
AddRow ==
  /\ WeekShown
  /\ is_edit_mode
  /\ Len(edits) < MaxEdits
  /\ \E add_day \in day_labels(selected_week), add_shift \in ShiftSet :
       schedules' = schedules \cup
         { [ StoredRow(next_id, selected_week, 0, add_shift, "C", 1, 0, <<"manual">>)
               EXCEPT !.day_of_week = add_day ] }
  /\ next_id' = next_id + 1
  /\ edit_pc' = "view"
  /\ edits' = Append(edits, "add")
  /\ UNCHANGED <<selected_week, schedule_backup, schedule_edit_mode,
                 schedule_edit_week, entered>>
  /\ EditFrame

\* the columns of a row but its id
WithoutId(row) ==
  [week_start |-> row.week_start, week_end |-> row.week_end,
   day_of_week |-> row.day_of_week, shift |-> row.shift, product |-> row.product,
   quantity |-> row.quantity, production_time |-> row.production_time,
   reason |-> row.reason, urgency |-> row.urgency]

\* variant: only the rows of the backup are deleted
restore_delete_Backup(week_start) ==
  {r \in schedules :
     \A k \in DOMAIN schedule_backup : schedule_backup[k].id # r.id}

\* lines 690-693: the rows of the week are deleted
restore_delete(week_start) ==
  {r \in schedules : r.week_start # week_start}

\* lines 695-706: the rows of the backup without their ids, inserted in one
\* batch (a backup of at most 1000 rows); the table numbers them in order
restore_insert(backup, first_id) ==
  { [id |-> first_id + k - 1] @@ WithoutId(backup[k]) : k \in DOMAIN backup }

\* lines 1175-1186 with restore_schedule_from_session (685-708): "취소".
\* The delete or the insert may raise; line 1186 then shows the error and
\* nothing of the session state is changed.
Cancel ==
  /\ WeekShown
  /\ is_edit_mode
  /\ \/ /\ schedule_backup = << >>
        /\ schedule_edit_mode' = FALSE
        /\ schedule_edit_week' = 0
        /\ edit_pc' = "restored"
        /\ UNCHANGED <<schedules, schedule_backup, next_id, selected_week>>
     \/ /\ schedule_backup # << >>
        /\ \E table \in {restore_delete(selected_week)
                           \cup restore_insert(schedule_backup, next_id)} :
             /\ schedules' = table
             /\ selected_week' \in Reselect(table)
        /\ next_id' = next_id + Len(schedule_backup)
        /\ schedule_backup' = << >>
        /\ schedule_edit_mode' = FALSE
        /\ schedule_edit_week' = 0
        /\ edit_pc' = "restored"
     \/ /\ schedule_backup # << >>
        /\ edit_pc' = "restore_failed"
        /\ \E table \in {schedules, restore_delete(selected_week)} :
             /\ schedules' = table
             /\ selected_week' \in Reselect(table)
        /\ UNCHANGED <<schedule_backup, schedule_edit_mode, schedule_edit_week,
                       next_id>>
  /\ UNCHANGED <<entered, edits>>
  /\ EditFrame

EditInit ==
  /\ weekly_df = << >>
  /\ pc = "idle"
  /\ i = 1
  /\ day_idx = 0
  /\ stock = 0
  /\ sim = NoSim
  /\ production_plan = << >>
  /\ additional_plan = << >>
  /\ temp_schedule = EmptySlots
  /\ temp_daily_sum = ZeroSlots
  /\ temp_daily_time = ZeroSlots
  /\ final_stocks = << >>
  /\ schedule = EmptySlots
  /\ daily_sum = ZeroSlots
  /\ daily_time = ZeroSlots
  /\ first_week_plan = << >>
  /\ next_week_plan = << >>
  /\ last = NoLast
  /\ sales_table = {}
  /\ sales_date = BaseMonday + 2
  /\ schedule_date = BaseMonday + 9
  /\ sales_monday = BaseMonday
  /\ sales_df = {}
  /\ inventory_df = << >>
  /\ weekly_rows = << >>
  /\ unmatched = << >>
  /\ run = 0
  /\ first_out = << >>
  /\ monday = 0
  /\ date_labels = << >>
  /\ schedules \in StoredTables
  /\ FlowIdle
  /\ products = << >>
  /\ selected_week = 0
  /\ schedule_backup = << >>
  /\ schedule_edit_mode = FALSE
  /\ schedule_edit_week = 0
  /\ edit_pc = "closed"
  /\ next_id = Cardinality(schedules) + 1
  /\ entered = {}
  /\ edits = << >>

EditNext ==
  \/ OpenView
  \/ CloseView
  \/ SelectWeek
  \/ EnterEdit
  \/ Done
  \/ DeleteRow
  \/ UpdateRow
  \/ AddRow
  \/ Cancel

EditSpec == EditInit /\ [][EditNext]_vars

\* the rows of a week in the order of their ids, without the ids
StoredWithoutId(table, week_start) ==
  LET rows == OrderById({r \in table : r.week_start = week_start})
  IN  [k \in DOMAIN rows |-> WithoutId(rows[k])]

\* C22. Edit-mode cancel is a round trip: when "취소" has restored the week
\* after any deletions, moves, quantity changes and manual additions, the
\* rows of the week are, but for their ids and in the order of their ids,
\* the rows that were stored when edit mode was entered, and the backup of
\* the session is empty.
C22_CancelRoundTrip ==
  [][(edit_pc' = "restored" /\ is_edit_mode)
       => /\ StoredWithoutId(schedules', selected_week)
               = StoredWithoutId(entered, selected_week)
          /\ schedule_backup' = << >>]_vars

\* a cancel has restored a week of which a row had been deleted, another
\* changed and to which a row had been added
C22_Witness ==
  /\ edit_pc = "restored"
  /\ Cardinality(entered) = 2
  /\ edits = <<"enter", "delete", "update", "add">>

\* C28. A failed restore does not lose the schedule: after "취소" has failed
\* with the rows of the week deleted, the backup is still in the session and
\* the week is still one of the weeks of the page, so that its cancel button
\* can be reached again.
C28_RestoreRepeatable ==
  (edit_pc = "restore_failed" /\ schedule_edit_mode)
    => /\ schedule_backup # << >>
       /\ \E k \in DOMAIN get_all_weeks(schedules) :
            get_all_weeks(schedules)[k] = schedule_edit_week

====
